---- MODULE Spec2Model ----
(***************************************************************************)
(* State-machine model of the svg-generator application: the App shell     *)
(* (App.tsx, generate / refine request cycle and view routing) and the     *)
(* Editor component (components/Editor.tsx: selection, serialization,      *)
(* attribute edits, delete, reset, save, refinement submission).           *)
(*                                                                         *)
(* The live DOM tree of the editor is a sequence of node records in        *)
(* document order; a node's parent is an index into that sequence, 0 being *)
(* the root <svg>.  Markup text (artifact content, serializer output) is a *)
(* separate value: a record holding the element list plus a flag telling   *)
(* whether the text is in the serializer's normal form.  Every handler is  *)
(* one atomic action (the UI is single threaded, React commits the state   *)
(* updates and runs the effects they trigger before the next event).       *)
(* Presentation-only state (copied, isLayersOpen, updateTrigger, the       *)
(* constant isEditing = true) is left out.                                *)
(***************************************************************************)
EXTENDS Integers, Sequences, FiniteSets, TLC

\* ------------------------------------------------------------- bounds
\* Number of artifact ids (crypto.randomUUID results) the run may use.
MaxArtifacts == 3
\* Number of document edits (attribute edits, deletions) made in one run.
MaxEdits == 1
\* Largest |x| (in tenths of a unit) of the transform state at the press
\* that begins a drag whose moves are followed.
MaxCoord == 100
\* Number of elements of a fragment given to a layer scan on its own.
MaxNodes == 3

\* ---------------------------------------------------------- constants
\* GenerationStatus
IDLE == "IDLE"
LOADING == "LOADING"
SUCCESS == "SUCCESS"
ERROR == "ERROR"

\* The selector used by scanLayers and by the canvas hit test.
ShapeTags == {"path", "rect", "circle", "ellipse", "line", "polyline", "polygon", "text", "g"}

\* Presentation attributes the property panel edits in this model.
AttrNames == {"fill"}
\* "" stands for an absent attribute / absent inline declaration.
Absent == ""

\* A reference to an element: 0 is null, k >= 1 is the k-th node of the
\* live node table.
NullEl == 0

\* class attribute of a node: absent, class="" or class="svg-selected"
ClsAbsent == "absent"
ClsEmpty == "empty"
ClsMarked == "svg-selected"

\* Lengths (x, y, pivots, box centers) are counted in tenths of a user unit,
\* angles in degrees, scale factors in units.
\* The transform attribute of a node is the sequence of the transform
\* functions written in the string, each with its numeric arguments; the
\* empty sequence is the absent attribute (getAttribute(...) || '').
NoTf == <<>>
Fn(name, args) == [fn |-> name, args |-> args]
IdentityTransform == [x |-> 0, y |-> 0, scale |-> 1, rotate |-> 0]

\* The box of a node whose getBBox() throws.
NoBox == <<>>

\* ------------------------------------------------------------ markup
\* An element as it is written in markup text: its presentation attribute
\* and inline style declaration, the declaration a rule of a <style> sheet of
\* the markup gives it (rule), its text content, its transform attribute and
\* the center of the bounding box it renders with.
El(tag, parent, fillAttr, fillStyle, bx, by) ==
    [tag |-> tag, parent |-> parent, cls |-> ClsAbsent,
     attrs |-> [a \in AttrNames |-> fillAttr],
     style |-> [a \in AttrNames |-> fillStyle],
     rule |-> [a \in AttrNames |-> Absent],
     text |-> "",
     tf |-> NoTf, box |-> <<bx, by>>]

NoMarkup == [svg |-> FALSE, norm |-> FALSE, nodes |-> <<>>]

\* What the generative service may answer (the service is opaque; these are
\* representative answers): a group holding a rect whose fill is also set
\* by an inline style; a text holding a tspan, already written the way the
\* serializer writes it; and an answer that holds no <svg> element at all.
MarkupA == [svg |-> TRUE, norm |-> FALSE,
            nodes |-> << El("g", 0, Absent, Absent, 10, 10),
                         El("rect", 1, "red", "red", 10, 10) >>]
MarkupB == [svg |-> TRUE, norm |-> TRUE,
            nodes |-> << El("text", 0, "black", Absent, 5, 5),
                         El("tspan", 1, Absent, Absent, 5, 5) >>]
AIMarkups == {MarkupA, MarkupB, NoMarkup}

\* Answers whose first element, a text, carries a transform attribute: none,
\* translate(10, 5), translate(10), rotate(90), scale(2) translate(10, 0),
\* and a string of the form applyTransform writes; the second element is a
\* rect whose fill is set by attribute and inline style.  In MarkupRule a
\* rule of the markup's style sheet sets the fill of the text; in MarkupNoBox
\* the text is not rendered and its getBBox() throws.
TransformStrings ==
    { NoTf,
      << Fn("translate", <<100, 50>>) >>,
      << Fn("translate", <<100>>) >>,
      << Fn("rotate", <<90>>) >>,
      << Fn("scale", <<2>>), Fn("translate", <<100, 0>>) >>,
      << Fn("translate", <<100, 0>>), Fn("rotate", <<90, 20, 20>>), Fn("scale", <<2>>) >> }
MarkupT(t) == [svg |-> TRUE, norm |-> FALSE,
               nodes |-> << [El("text", 0, "black", Absent, 5, 5) EXCEPT !.text = "Hi", !.tf = t],
                            El("rect", 0, "red", "red", 10, 10) >>]
MarkupRule == [MarkupT(NoTf) EXCEPT !.nodes[1].rule = [a \in AttrNames |-> "blue"]]
MarkupNoBox == [MarkupT(NoTf) EXCEPT !.nodes[1].box = NoBox]
EditorMarkups == {MarkupT(t) : t \in TransformStrings} \cup {MarkupRule, MarkupNoBox}

Prompts == {"a red circle"}
Instructions == {"", "  ", "make it blue"}
ErrMessages == {"", "quota"}
\* The value null of updateAttribute's parameter.
NullValue == "null"
EditValues == {NullValue, "none", "#00ff00"}
ScreenXs == {0}
\* clientX of a pointer move, values of the transform inputs of the property
\* panel, values of the text input.
MoveXs == {50}
PanelInputs == [x |-> {0, 100}, y |-> {0}, scale |-> {1, 2}, rotate |-> {0, 90}]
TextValues == {"Hi", "Hello"}
\* Screen pixels per user unit of the rendered <svg> (svg.getScreenCTM()).
Zoom == 3

\* String.prototype.trim on the instruction values of the model.
Trim(s) == IF s = "  " THEN "" ELSE s

\* ------------------------------------------------------------ colours
\* Colour strings are sequences of one-character strings.
DecDigits == <<"0", "1", "2", "3", "4", "5", "6", "7", "8", "9">>
HexDigits == DecDigits \o <<"a", "b", "c", "d", "e", "f">>
IsDigit(ch) == \E i \in 1..Len(DecDigits) : DecDigits[i] = ch

\* Number.prototype.toString(radix) of n >= 0 with the digits ds
\* (Len(ds) is the radix).
RECURSIVE NumToString(_, _)
NumToString(n, ds) ==
    IF n < Len(ds) THEN <<ds[n + 1]>>
    ELSE NumToString(n \div Len(ds), ds) \o <<ds[(n % Len(ds)) + 1]>>

\* parseInt of a run of decimal digits.
RECURSIVE parseInt(_)
parseInt(run) ==
    IF run = <<>> THEN 0
    ELSE 10 * parseInt(SubSeq(run, 1, Len(run) - 1))
         + (CHOOSE i \in 0..9 : DecDigits[i + 1] = run[Len(run)])

\* col.match(/\d+/g): the maximal runs of digits of col, left to right,
\* from position i on (<<>> stands for null).
RECURSIVE DigitRuns(_, _, _)
DigitRuns(col, i, run) ==
    IF i > Len(col) THEN (IF run = <<>> THEN <<>> ELSE <<run>>)
    ELSE IF IsDigit(col[i]) THEN DigitRuns(col, i + 1, Append(run, col[i]))
    ELSE (IF run = <<>> THEN <<>> ELSE <<run>>) \o DigitRuns(col, i + 1, <<>>)

\* col.startsWith(prefix)
StartsWith(col, prefix) ==
    Len(col) >= Len(prefix) /\ SubSeq(col, 1, Len(prefix)) = prefix

\* Variant of rgbToHex: the channels are converted one by one,
\* "#" + r.toString(16) + g.toString(16) + b.toString(16), without padding.
rgbToHexNoPadding(col) ==
    IF col = <<>> \/ col = <<"n", "o", "n", "e">> \/ col = <<"t", "r", "a", "n", "s", "p", "a", "r", "e", "n", "t">>
    THEN <<"#", "f", "f", "f", "f", "f", "f">>
    ELSE IF StartsWith(col, <<"#">>) THEN col
    ELSE LET rgb == DigitRuns(col, 1, <<>>)
         IN  IF Len(rgb) < 3 THEN <<"#", "0", "0", "0", "0", "0", "0">>
             ELSE <<"#">> \o NumToString(parseInt(rgb[1]), HexDigits)
                        \o NumToString(parseInt(rgb[2]), HexDigits)
                        \o NumToString(parseInt(rgb[3]), HexDigits)

\* rgbToHex(col); the shifts r << 16 and g << 8 are products, the channel
\* values of the colour strings at hand being far below 2^15.
rgbToHex(col) ==
    IF col = <<>> \/ col = <<"n", "o", "n", "e">> \/ col = <<"t", "r", "a", "n", "s", "p", "a", "r", "e", "n", "t">>
    THEN <<"#", "f", "f", "f", "f", "f", "f">>
    ELSE IF StartsWith(col, <<"#">>) THEN col
    ELSE LET rgb == DigitRuns(col, 1, <<>>)
         IN  IF Len(rgb) < 3 THEN <<"#", "0", "0", "0", "0", "0", "0">>
             ELSE LET r == parseInt(rgb[1])
                      g == parseInt(rgb[2])
                      b == parseInt(rgb[3])
                  IN  <<"#">> \o Tail(NumToString(16777216 + r * 65536 + g * 256 + b,
                                                  HexDigits))

\* The strings getComputedStyle(el).fill may give: the empty string, none,
\* transparent, a hex colour, rgb(r, g, b) for channel values around the
\* digit boundaries, rgba(0, 0, 0, 0), a colour keyword and a reference to
\* a paint server.
Channels == {0, 15, 16, 255}
RgbString(r, g, b) ==
    <<"r", "g", "b", "(">> \o NumToString(r, DecDigits) \o <<",", " ">>
       \o NumToString(g, DecDigits) \o <<",", " ">> \o NumToString(b, DecDigits) \o <<")">>
ColorStrings ==
    { <<>>,
      <<"n", "o", "n", "e">>,
      <<"t", "r", "a", "n", "s", "p", "a", "r", "e", "n", "t">>,
      <<"#", "0", "0", "f", "f", "0", "0">>,
      <<"r", "g", "b", "a", "(", "0", ",", " ", "0", ",", " ", "0", ",", " ", "0", ")">>,
      <<"r", "e", "d">>,
      <<"u", "r", "l", "(", "#", "g", ")">> }
      \cup { RgbString(r, g, b) : r \in Channels, g \in Channels, b \in Channels }

\* ------------------------------------------------------------ DOM tree
\* innerHTML = content: every element of the markup becomes a fresh node
\* attached to its parent.
ParseMarkup(m) == [i \in 1..Len(m.nodes) |->
    [tag |-> m.nodes[i].tag, parent |-> m.nodes[i].parent, att |-> TRUE,
     cls |-> m.nodes[i].cls, attrs |-> m.nodes[i].attrs, style |-> m.nodes[i].style,
     rule |-> m.nodes[i].rule, text |-> m.nodes[i].text,
     tf |-> m.nodes[i].tf, box |-> m.nodes[i].box]]

\* Node k is in the document: the chain of attached parents reaches the root.
RECURSIVE InDoc(_, _)
InDoc(d, k) ==
    IF k = 0 THEN TRUE
    ELSE IF k < 1 \/ k > Len(d) THEN FALSE
    ELSE d[k].att /\ InDoc(d, d[k].parent)

\* Element.closest(selector): the nearest ancestor-or-self whose tag is a
\* shape tag; 0 when there is none (the walk reached the root <svg>).
RECURSIVE Closest(_, _)
Closest(d, k) ==
    IF k < 1 \/ k > Len(d) THEN NullEl
    ELSE IF d[k].tag \in ShapeTags THEN k
    ELSE Closest(d, d[k].parent)

\* Number of nodes among 1..k that are in the document.
Rank(d, k) == Cardinality({j \in 1..k : InDoc(d, j)})

\* The k-th (k >= 1) node of the document in document order.
NthInDoc(d, i) == CHOOSE k \in 1..Len(d) : InDoc(d, k) /\ Rank(d, k) = i

\* querySelectorAll(sel) under the <svg>: the nodes in the document whose
\* tag is in the selector, in document order.
RECURSIVE QueryTags(_, _, _)
QueryTags(d, tags, n) ==
    IF n = 0 THEN <<>>
    ELSE QueryTags(d, tags, n - 1) \o
         (IF InDoc(d, n) /\ d[n].tag \in tags THEN <<n>> ELSE <<>>)

\* container.querySelectorAll('.svg-selected').forEach(el =>
\*   el.classList.remove('svg-selected')): the token is removed, the class
\* attribute itself stays (as class="").
ClearMarkers(d) == [k \in 1..Len(d) |->
    IF InDoc(d, k) /\ d[k].cls = ClsMarked THEN [d[k] EXCEPT !.cls = ClsEmpty] ELSE d[k]]

\* element.classList.add('svg-selected')
AddMarker(d, k) ==
    IF k >= 1 /\ k <= Len(d) THEN [d EXCEPT ![k].cls = ClsMarked] ELSE d

\* svg.cloneNode(true): a deep copy of the nodes in the document, parents
\* renumbered to positions in the copy.
CloneSvg(d) == [i \in 1..Rank(d, Len(d)) |->
    LET k == NthInDoc(d, i)
    IN  [tag |-> d[k].tag, parent |-> Rank(d, d[k].parent), cls |-> d[k].cls,
         attrs |-> d[k].attrs, style |-> d[k].style, rule |-> d[k].rule,
         text |-> d[k].text, tf |-> d[k].tf, box |-> d[k].box]]

\* Variant of StripMarkers: the clone is serialized as it is.
StripMarkersSkipped(els) == els

\* clone.querySelectorAll('.svg-selected').forEach(... remove ...)
StripMarkers(els) == [i \in 1..Len(els) |->
    IF els[i].cls = ClsMarked THEN [els[i] EXCEPT !.cls = ClsEmpty] ELSE els[i]]

\* new XMLSerializer().serializeToString(clone): text in normal form.
SerializeToString(els) == [svg |-> TRUE, norm |-> TRUE, nodes |-> els]

\* getSvgContent: '' (NoMarkup) when the container holds no <svg>.
getSvgContent(d, svg) ==
    IF ~svg THEN NoMarkup ELSE SerializeToString(StripMarkers(CloneSvg(d)))

\* Variant of scanLayers: the elements are collected from the container
\* whether or not it holds an <svg>.
scanLayersOfContainer(d, svg) == QueryTags(d, ShapeTags, Len(d))

\* scanLayers: the new value of layers.
scanLayers(d, svg) == IF ~svg THEN <<>> ELSE QueryTags(d, ShapeTags, Len(d))

\* String.prototype.match(regex) on a transform string: the first function
\* of the string named fn whose argument list the pattern accepts (lens: the
\* accepted numbers of arguments); <<>> for null.
RECURSIVE Match(_, _, _, _)
Match(t, fn, lens, i) ==
    IF i > Len(t) THEN <<>>
    ELSE IF t[i].fn = fn /\ Len(t[i].args) \in lens THEN t[i].args
    ELSE Match(t, fn, lens, i + 1)

\* The transform parse effect (runs when selectedEl changed to an element):
\*   /translate\(([-\d.]+)[, ]+([-\d.]+)\)/   translate with two numbers
\*   /rotate\(([-\d.]+)/                      rotate, its first number
\*   /scale\(([-\d.]+)\)/                     scale with one number
ParseTransform(t) ==
    LET translateMatch == Match(t, "translate", {2}, 1)
        rotateMatch == Match(t, "rotate", {1, 2, 3}, 1)
        scaleMatch == Match(t, "scale", {1}, 1)
    IN  [x |-> IF translateMatch # <<>> THEN translateMatch[1] ELSE 0,
         y |-> IF translateMatch # <<>> THEN translateMatch[2] ELSE 0,
         rotate |-> IF rotateMatch # <<>> THEN rotateMatch[1] ELSE 0,
         scale |-> IF scaleMatch # <<>> THEN scaleMatch[1] ELSE 1]

\* ------------------------------------------------------------- state
VARIABLES
    status,        \* App: GenerationStatus
    currentSvg,    \* App: the current artifact, NoSvg for null
    error,         \* App: ApiError, NoError for null
    isRefining,    \* App: busy flag of the refinement request
    view,          \* App: "home" or "editor"
    pending,       \* the awaited service calls (generateSvgFromPrompt / refineSvg)
    nextId,        \* the next value crypto.randomUUID() returns
    editor,        \* the Editor component instance: its state, refs and container
    edits          \* number of document edits made so far (bounded by MaxEdits)

vars == <<status, currentSvg, error, isRefining, view, pending, nextId, editor, edits>>

NoSvg == [id |-> 0, content |-> NoMarkup, prompt |-> ""]
NoError == [message |-> "", details |-> ""]
NoDragStart == [set |-> FALSE, x |-> 0, y |-> 0, initialX |-> 0, initialY |-> 0]

\* The fill colour control before it is rendered: the string
\* getComputedStyle gave (a sequence of characters) and the control's value.
NoPicker == [computed |-> <<>>, value |-> <<>>, shown |-> FALSE]

\* The Editor's useState / useRef initial values, and an empty container;
\* ctm is the scale of the screen matrix the container renders its <svg>
\* with, picker the fill colour control of the property panel.
InitialEditor ==
    [doc |-> <<>>, hasSvg |-> FALSE, selectedEl |-> NullEl, layers |-> <<>>,
     transform |-> IdentityTransform, isDragging |-> FALSE,
     dragStartRef |-> NoDragStart, refinePrompt |-> "", ctm |-> Zoom,
     picker |-> NoPicker]

\* App renders <Editor> only in the editor view with a current artifact.
EditorRendered(v, svg) == v = "editor" /\ svg.id # 0

Mounted == EditorRendered(view, currentSvg)

\* Variant of the load effect: setTransform({x: 0, y: 0, scale: 1, rotate: 0})
\* is missing.
LoadEffectKeepsTransform(e, data) ==
    LET d == ParseMarkup(data.content)
    IN  [e EXCEPT !.doc = d, !.hasSvg = data.content.svg,
                  !.selectedEl = NullEl,
                  !.refinePrompt = "",
                  !.layers = scanLayers(d, data.content.svg)]

\* The load effect: useEffect(..., [data.id, data.content, scanLayers]).
LoadEffect(e, data) ==
    LET d == ParseMarkup(data.content)
    IN  [e EXCEPT !.doc = d, !.hasSvg = data.content.svg,
                  !.selectedEl = NullEl,
                  !.refinePrompt = "",
                  !.transform = IdentityTransform,
                  !.layers = scanLayers(d, data.content.svg)]

\* The Editor instance after App re-rendered with (v2, svg2) in place of
\* (v1, svg1): unmounted, freshly mounted (load effect on the initial
\* state), re-rendered with a changed data.id / data.content (load effect
\* on the kept state), or re-rendered with the same data.
Render(e, v1, svg1, v2, svg2) ==
    IF ~EditorRendered(v2, svg2) THEN InitialEditor
    ELSE IF ~EditorRendered(v1, svg1) THEN LoadEffect(InitialEditor, svg2)
    ELSE IF svg2.id # svg1.id \/ svg2.content # svg1.content THEN LoadEffect(e, svg2)
    ELSE e

\* getAttribute('transform') of an element reference.
TransformAttr(d, k) == IF k >= 1 /\ k <= Len(d) THEN d[k].tf ELSE NoTf

\* Variant of selectElement: the previous highlight is not cleared when an
\* element is selected.
selectElementKeepsOldMarker(e, element) ==
    IF element # NullEl
    THEN [e EXCEPT !.doc = AddMarker(e.doc, element),
                   !.selectedEl = element,
                   !.transform = IF element # e.selectedEl
                                 THEN ParseTransform(TransformAttr(e.doc, element))
                                 ELSE e.transform]
    ELSE [e EXCEPT !.doc = ClearMarkers(e.doc), !.selectedEl = NullEl]

\* Variant of selectElement: the element is recorded as selected but the
\* highlight class is not added.
selectElementNoMarker(e, element) ==
    LET d == ClearMarkers(e.doc)
    IN  IF element # NullEl
        THEN [e EXCEPT !.doc = d,
                       !.selectedEl = element,
                       !.transform = IF element # e.selectedEl
                                     THEN ParseTransform(TransformAttr(d, element))
                                     ELSE e.transform]
        ELSE [e EXCEPT !.doc = d, !.selectedEl = NullEl]

\* selectElement, followed by the transform parse effect that the change of
\* selectedEl triggers.
selectElement(e, element) ==
    LET d == ClearMarkers(e.doc)
    IN  IF element # NullEl
        THEN [e EXCEPT !.doc = AddMarker(d, element),
                       !.selectedEl = element,
                       !.transform = IF element # e.selectedEl
                                     THEN ParseTransform(TransformAttr(d, element))
                                     ELSE e.transform]
        ELSE [e EXCEPT !.doc = d, !.selectedEl = NullEl]

\* Variant of updateAttribute: with the value none only the attribute is set.
updateAttributeNoneKeepsStyle(e, attr, value) ==
    IF e.selectedEl = NullEl THEN e
    ELSE LET k == e.selectedEl
             none == value = NullValue \/ value = "none"
         IN  [e EXCEPT !.doc[k].attrs[attr] = IF none THEN "none" ELSE value,
                       !.doc[k].style[attr] =
                           IF e.doc[k].style[attr] # Absent /\ ~none THEN value
                           ELSE e.doc[k].style[attr]]

\* Variant of updateAttribute: the style property is set whether or not the
\* element has an inline declaration.
updateAttributeCreatesStyle(e, attr, value) ==
    IF e.selectedEl = NullEl THEN e
    ELSE LET k == e.selectedEl
             v == IF value = NullValue \/ value = "none" THEN "none" ELSE value
         IN  [e EXCEPT !.doc[k].attrs[attr] = v, !.doc[k].style[attr] = v]

\* Variant of updateAttribute: the attribute is set on every element.
updateAttributeEveryNode(e, attr, value) ==
    LET v == IF value = NullValue \/ value = "none" THEN "none" ELSE value
    IN  [e EXCEPT !.doc = [j \in 1..Len(e.doc) |-> [e.doc[j] EXCEPT !.attrs[attr] = v]]]

\* updateAttribute(attr, value)
updateAttribute(e, attr, value) ==
    IF e.selectedEl = NullEl THEN e
    ELSE LET k == e.selectedEl
             live == k >= 1 /\ k <= Len(e.doc)
             v == IF value = NullValue \/ value = "none" THEN "none" ELSE value
         IN  IF ~live THEN e
             ELSE [e EXCEPT !.doc[k].attrs[attr] = v,
                            !.doc[k].style[attr] =
                                IF e.doc[k].style[attr] # Absent THEN v
                                ELSE e.doc[k].style[attr]]

\* Variant of handleDeleteElement: setSelectedEl(null) is missing.
handleDeleteElementKeepsSelection(e) ==
    IF e.selectedEl = NullEl THEN e
    ELSE LET k == e.selectedEl
             d == IF k >= 1 /\ k <= Len(e.doc)
                  THEN [e.doc EXCEPT ![k].att = FALSE] ELSE e.doc
         IN  [e EXCEPT !.doc = d, !.layers = scanLayers(d, e.hasSvg)]

\* Variant of handleDeleteElement: scanLayers() is not called.
handleDeleteElementNoScan(e) ==
    IF e.selectedEl = NullEl THEN e
    ELSE LET k == e.selectedEl
             d == IF k >= 1 /\ k <= Len(e.doc)
                  THEN [e.doc EXCEPT ![k].att = FALSE] ELSE e.doc
         IN  [e EXCEPT !.doc = d, !.selectedEl = NullEl]

\* handleDeleteElement
handleDeleteElement(e) ==
    IF e.selectedEl = NullEl THEN e
    ELSE LET k == e.selectedEl
             d == IF k >= 1 /\ k <= Len(e.doc)
                  THEN [e.doc EXCEPT ![k].att = FALSE] ELSE e.doc
         IN  [e EXCEPT !.doc = d, !.selectedEl = NullEl,
                       !.layers = scanLayers(d, e.hasSvg)]

\* selectedEl.getBBox(), then cx = bbox.x + bbox.width / 2 (and cy); the catch
\* block leaves cx = cy = 0.
Pivot(n) == IF n.box = NoBox THEN <<0, 0>> ELSE n.box

\* The template string of applyTransform.
TransformString(st, c) ==
    << Fn("translate", <<st.x, st.y>>),
       Fn("rotate", <<st.rotate, c[1], c[2]>>),
       Fn("scale", <<st.scale>>) >>

\* Variant of applyTransform: the pivot of an existing rotate(a, cx, cy) is
\* kept instead of being queried again.
applyTransformCachedPivot(e, newState) ==
    IF e.selectedEl = NullEl THEN e
    ELSE LET k == e.selectedEl
             old == Match(e.doc[k].tf, "rotate", {3}, 1)
             c == IF old # <<>> THEN <<old[2], old[3]>> ELSE Pivot(e.doc[k])
         IN  [e EXCEPT !.doc[k].tf = TransformString(newState, c),
                       !.transform = newState]

\* Variant of applyTransform: the guard on selectedEl is missing and the
\* string is written to every node.
applyTransformEveryNode(e, newState) ==
    [e EXCEPT !.doc = [j \in 1..Len(e.doc) |->
                          [e.doc[j] EXCEPT !.tf = TransformString(newState, Pivot(e.doc[j]))]],
              !.transform = newState]

\* Variant of applyTransform: getBBox() is called outside a try block, so
\* its exception ends the handler before anything is written.
applyTransformBBoxThrows(e, newState) ==
    IF e.selectedEl = NullEl THEN e
    ELSE LET k == e.selectedEl
         IN  IF e.doc[k].box = NoBox THEN e
             ELSE [e EXCEPT !.doc[k].tf = TransformString(newState, Pivot(e.doc[k])),
                            !.transform = newState]

\* applyTransform(newState)
applyTransform(e, newState) ==
    IF e.selectedEl = NullEl THEN e
    ELSE LET k == e.selectedEl
         IN  [e EXCEPT !.doc[k].tf = TransformString(newState, Pivot(e.doc[k])),
                       !.transform = newState]

\* Math.round(v * 10) / 10 of the value num / den user units, in tenths:
\* Math.round rounds a half up.
Round1(num, den) == (2 * num + den) \div (2 * den)

\* initial + (loc - startLoc), rounded: loc and startLoc are the pointer and
\* the press position mapped through the inverse screen matrix of the <svg>.
DragCoord(zoom, initial, client, start) ==
    Round1(initial * zoom + 10 * (client - start), zoom)

\* Variant of handleWindowMouseMove: the displacement since the press is
\* added to the current x and y of the transform state.
handleWindowMouseMoveAccumulates(e, clientX, clientY) ==
    IF ~e.isDragging \/ e.selectedEl = NullEl \/ ~e.dragStartRef.set \/ ~e.hasSvg
    THEN e
    ELSE applyTransform(e,
            [e.transform EXCEPT
                !.x = DragCoord(e.ctm, e.transform.x, clientX, e.dragStartRef.x),
                !.y = DragCoord(e.ctm, e.transform.y, clientY, e.dragStartRef.y)])

\* handleWindowMouseMove
handleWindowMouseMove(e, clientX, clientY) ==
    IF ~e.isDragging \/ e.selectedEl = NullEl \/ ~e.dragStartRef.set \/ ~e.hasSvg
    THEN e
    ELSE applyTransform(e,
            [e.transform EXCEPT
                !.x = DragCoord(e.ctm, e.dragStartRef.initialX, clientX, e.dragStartRef.x),
                !.y = DragCoord(e.ctm, e.dragStartRef.initialY, clientY, e.dragStartRef.y)])

\* The bounding box a text element renders with.
TextBox(value) == IF value = "Hello" THEN <<15, 5>> ELSE <<5, 5>>

\* The text input's onChange: selectedEl.textContent = value (the children of
\* the element are replaced by one text node), then scanLayers().
setTextContent(e, value) ==
    LET k == e.selectedEl
        d == [j \in 1..Len(e.doc) |->
                 IF j = k THEN [e.doc[j] EXCEPT !.text = value, !.box = TextBox(value)]
                 ELSE IF e.doc[j].parent = k THEN [e.doc[j] EXCEPT !.att = FALSE]
                 ELSE e.doc[j]]
    IN  [e EXCEPT !.doc = d, !.layers = scanLayers(d, e.hasSvg)]

\* Variant of the Reset onClick: setSelectedEl(null) is missing.
ResetToOriginalKeepsSelection(e, data) ==
    LET d == ParseMarkup(data.content)
    IN  [e EXCEPT !.doc = d, !.hasSvg = data.content.svg,
                  !.layers = scanLayers(d, data.content.svg)]

\* The onClick of the "Reset to Original" button.
ResetToOriginal(e, data) ==
    LET d == ParseMarkup(data.content)
    IN  [e EXCEPT !.doc = d, !.hasSvg = data.content.svg,
                  !.selectedEl = NullEl,
                  !.layers = scanLayers(d, data.content.svg)]

\* Variant of handleMouseDown: a press on a shape that is not the selection
\* selects it and starts a drag with the same press.
handleMouseDownAlwaysDrags(e, target, clientX, clientY) ==
    LET element == Closest(e.doc, target)
    IN  IF element # NullEl /\ InDoc(e.doc, element)
        THEN LET s == selectElement(e, element)
             IN  [s EXCEPT !.isDragging = TRUE,
                           !.dragStartRef = [set |-> TRUE, x |-> clientX, y |-> clientY,
                                             initialX |-> s.transform.x,
                                             initialY |-> s.transform.y]]
        ELSE selectElement(e, NullEl)

\* handleMouseDown on the canvas container; target is the node under the
\* pointer, 0 for the <svg> root or the bare container.
handleMouseDown(e, target, clientX, clientY) ==
    LET element == Closest(e.doc, target)
    IN  IF element # NullEl /\ InDoc(e.doc, element)
        THEN IF element = e.selectedEl
             THEN [e EXCEPT !.isDragging = TRUE,
                            !.dragStartRef = [set |-> TRUE, x |-> clientX, y |-> clientY,
                                              initialX |-> e.transform.x,
                                              initialY |-> e.transform.y]]
             ELSE selectElement(e, element)
        ELSE selectElement(e, NullEl)

\* Variant of handleWindowMouseUp: the record of the press is kept.
handleWindowMouseUpKeepsRecord(e) == [e EXCEPT !.isDragging = FALSE]

\* handleWindowMouseUp
handleWindowMouseUp(e) == [e EXCEPT !.isDragging = FALSE, !.dragStartRef = NoDragStart]

\* handleSave(content) of App: the new value of currentSvg.
handleSave(svg, content) ==
    IF svg.id # 0 THEN [svg EXCEPT !.content = content] ELSE svg

\* -------------------------------------------------------------- Init
Init ==
    /\ status = IDLE
    /\ currentSvg = NoSvg
    /\ error = NoError
    /\ isRefining = FALSE
    /\ view = "home"
    /\ pending = <<>>
    /\ nextId = 1
    /\ editor = InitialEditor
    /\ edits = 0

\* A service call can be started: every awaited call can still be given a
\* fresh artifact id.
CanStart == nextId + Len(pending) <= MaxArtifacts

RemoveAt(q, i) == [j \in 1..(Len(q) - 1) |-> IF j < i THEN q[j] ELSE q[j + 1]]

\* InputSection (its source is not part of the sources at hand): rendered in
\* the home view, its submission is disabled while status is LOADING.
InputSectionEnabled == view = "home" /\ status # LOADING

\* ------------------------------------------------------- App actions
\* Variant of HandleGenerate: setStatus(GenerationStatus.LOADING) is missing.
HandleGenerateKeepsStatus(prompt) ==
    /\ InputSectionEnabled
    /\ CanStart
    /\ error' = NoError
    /\ currentSvg' = NoSvg
    /\ pending' = Append(pending, [kind |-> "generate", prompt |-> prompt,
                                   content |-> NoMarkup, base |-> NoSvg])
    /\ editor' = Render(editor, view, currentSvg, view, NoSvg)
    /\ UNCHANGED <<status, isRefining, view, nextId, edits>>

\* handleGenerate(prompt) up to its await.
HandleGenerate(prompt) ==
    /\ InputSectionEnabled
    /\ CanStart
    /\ status' = LOADING
    /\ error' = NoError
    /\ currentSvg' = NoSvg
    /\ pending' = Append(pending, [kind |-> "generate", prompt |-> prompt,
                                   content |-> NoMarkup, base |-> NoSvg])
    /\ editor' = Render(editor, view, currentSvg, view, NoSvg)
    /\ UNCHANGED <<isRefining, view, nextId, edits>>

\* handleGenerate after the await resolved with svgContent.
GenerateResolve(i, svgContent) ==
    /\ i \in 1..Len(pending)
    /\ pending[i].kind = "generate"
    /\ LET newSvg == [id |-> nextId, content |-> svgContent, prompt |-> pending[i].prompt]
       IN  /\ currentSvg' = newSvg
           /\ status' = SUCCESS
           /\ view' = "home"
           /\ editor' = Render(editor, view, currentSvg, "home", newSvg)
    /\ nextId' = nextId + 1
    /\ pending' = RemoveAt(pending, i)
    /\ UNCHANGED <<error, isRefining, edits>>

\* handleGenerate after the await threw err (err.message = m).
GenerateReject(i, m) ==
    /\ i \in 1..Len(pending)
    /\ pending[i].kind = "generate"
    /\ status' = ERROR
    /\ error' = [message |-> "Generation Failed",
                 details |-> IF m # "" THEN m
                             ELSE "An unexpected error occurred while contacting Gemini."]
    /\ pending' = RemoveAt(pending, i)
    /\ UNCHANGED <<currentSvg, isRefining, view, nextId, editor, edits>>

\* handleRefine after the await resolved with refinedContent.
RefineResolve(i, refinedContent) ==
    /\ i \in 1..Len(pending)
    /\ pending[i].kind = "refine"
    /\ LET newSvg == [id |-> nextId, content |-> refinedContent, prompt |-> pending[i].prompt]
       IN  /\ currentSvg' = newSvg
           /\ editor' = Render(editor, view, currentSvg, view, newSvg)
    /\ status' = SUCCESS
    /\ isRefining' = FALSE
    /\ nextId' = nextId + 1
    /\ pending' = RemoveAt(pending, i)
    /\ UNCHANGED <<error, view, edits>>

\* Variant of RefineReject: the finally block (setIsRefining(false)) is missing.
RefineRejectKeepsBusy(i, m) ==
    /\ i \in 1..Len(pending)
    /\ pending[i].kind = "refine"
    /\ error' = [message |-> "Refinement Failed",
                 details |-> IF m # "" THEN m ELSE "Could not refine the SVG."]
    /\ pending' = RemoveAt(pending, i)
    /\ UNCHANGED <<status, currentSvg, isRefining, view, nextId, editor, edits>>

\* handleRefine after the await threw err (err.message = m).
RefineReject(i, m) ==
    /\ i \in 1..Len(pending)
    /\ pending[i].kind = "refine"
    /\ error' = [message |-> "Refinement Failed",
                 details |-> IF m # "" THEN m ELSE "Could not refine the SVG."]
    /\ isRefining' = FALSE
    /\ pending' = RemoveAt(pending, i)
    /\ UNCHANGED <<status, currentSvg, view, nextId, editor, edits>>

\* onEdit of the preview card (rendered when status is SUCCESS with an artifact).
OnEdit ==
    /\ view = "home" /\ status = SUCCESS /\ currentSvg.id # 0
    /\ view' = "editor"
    /\ editor' = Render(editor, view, currentSvg, "editor", currentSvg)
    /\ UNCHANGED <<status, currentSvg, error, isRefining, pending, nextId, edits>>

\* ---------------------------------------------------- Editor actions
AppUnchanged == UNCHANGED <<status, currentSvg, error, isRefining, view, pending, nextId>>

\* A handler that edits an attribute of the selected element or removes it
\* (attribute edit, transform input, delete): the run makes at most MaxEdits
\* such edits.
CountEdit ==
    /\ editor.selectedEl # NullEl => edits < MaxEdits
    /\ edits' = IF editor.selectedEl # NullEl THEN edits + 1 ELSE edits

\* A layer button: onClick={() => selectElement(el)}.
LayerClick(i) ==
    /\ Mounted
    /\ i \in 1..Len(editor.layers)
    /\ editor' = selectElement(editor, editor.layers[i])
    /\ UNCHANGED edits
    /\ AppUnchanged

\* The Deselect button of the property panel.
Deselect ==
    /\ Mounted
    /\ editor.selectedEl # NullEl
    /\ editor' = selectElement(editor, NullEl)
    /\ UNCHANGED edits
    /\ AppUnchanged

\* A pointer press on the canvas (the refinement overlay covers the canvas
\* while isRefining).
MouseDown(target, clientX) ==
    /\ Mounted
    /\ ~isRefining
    /\ target = 0 \/ InDoc(editor.doc, target)
    /\ editor' = handleMouseDown(editor, target, clientX, 0)
    /\ UNCHANGED edits
    /\ AppUnchanged

\* Pointer release; the window listener exists only while isDragging.
WindowMouseUp ==
    /\ Mounted
    /\ editor.isDragging
    /\ editor' = handleWindowMouseUp(editor)
    /\ UNCHANGED edits
    /\ AppUnchanged

\* A control of the property panel calling updateAttribute.
UpdateAttribute(attr, value) ==
    /\ Mounted
    /\ editor' = updateAttribute(editor, attr, value)
    /\ CountEdit
    /\ AppUnchanged

\* An input of the panel's Transform section:
\* applyTransform({...transform, [field]: Number(e.target.value)}).
PanelTransform(field, value) ==
    /\ Mounted
    /\ editor' = applyTransform(editor, [editor.transform EXCEPT ![field] = value])
    /\ CountEdit
    /\ AppUnchanged

\* A pointer move; the window listener exists only while isDragging. The
\* drags followed are those that begin within MaxCoord of the origin.
WindowMouseMove(clientX) ==
    /\ Mounted
    /\ editor.isDragging
    /\ editor.dragStartRef.initialX <= MaxCoord
    /\ editor.dragStartRef.initialX >= -MaxCoord
    /\ editor' = handleWindowMouseMove(editor, clientX, 0)
    /\ UNCHANGED edits
    /\ AppUnchanged

\* The Text Content input (rendered for a selected text / tspan element).
TextEdit(value) ==
    /\ Mounted
    /\ editor.selectedEl # NullEl
    /\ editor.doc[editor.selectedEl].tag \in {"text", "tspan"}
    /\ editor' = setTextContent(editor, value)
    /\ UNCHANGED edits
    /\ AppUnchanged

\* The Delete Element button.
DeleteElement ==
    /\ Mounted
    /\ editor' = handleDeleteElement(editor)
    /\ CountEdit
    /\ AppUnchanged

\* The Reset to Original button (disabled while isRefining).
Reset ==
    /\ Mounted
    /\ ~isRefining
    /\ editor' = ResetToOriginal(editor, currentSvg)
    /\ UNCHANGED edits
    /\ AppUnchanged

\* The refinement input's onChange (disabled while isRefining).
SetRefinePrompt(s) ==
    /\ Mounted
    /\ ~isRefining
    /\ editor' = [editor EXCEPT !.refinePrompt = s]
    /\ UNCHANGED edits
    /\ AppUnchanged

\* The text handleCopyCode gives to navigator.clipboard.writeText and the
\* text handleDownload puts into the Blob.
ClipboardText(e) == getSvgContent(e.doc, e.hasSvg)
DownloadText(e) == getSvgContent(e.doc, e.hasSvg)

\* handleCopyCode (button disabled while isRefining): the text
\* getSvgContent returns goes to the clipboard, no state of the model changes.
CopyCode ==
    /\ Mounted
    /\ ~isRefining
    /\ UNCHANGED editor
    /\ UNCHANGED edits
    /\ AppUnchanged

\* handleDownload (button disabled while isRefining): the text
\* getSvgContent returns goes to a file, no state of the model changes.
Download ==
    /\ Mounted
    /\ ~isRefining
    /\ UNCHANGED editor
    /\ UNCHANGED edits
    /\ AppUnchanged

\* handleManualSave: onSave(content), then the re-render of the Editor with
\* the saved artifact.
ManualSave ==
    /\ Mounted
    /\ LET content == getSvgContent(editor.doc, editor.hasSvg)
           saved == IF content # NoMarkup THEN handleSave(currentSvg, content) ELSE currentSvg
       IN  /\ currentSvg' = saved
           /\ editor' = Render(editor, view, currentSvg, view, saved)
    /\ UNCHANGED <<status, error, isRefining, view, pending, nextId, edits>>

\* handleBackWithSave: onSave(content) and onBack().
BackWithSave ==
    /\ Mounted
    /\ LET content == getSvgContent(editor.doc, editor.hasSvg)
           saved == IF content # NoMarkup THEN handleSave(currentSvg, content) ELSE currentSvg
       IN  /\ currentSvg' = saved
           /\ view' = "home"
           /\ editor' = Render(editor, view, currentSvg, "home", saved)
    /\ UNCHANGED <<status, error, isRefining, pending, nextId, edits>>

\* Variant of handleRefineSubmit: the busy flag is not consulted.
handleRefineSubmitIgnoresBusy(refinePrompt, busy, currentContent) ==
    /\ Trim(refinePrompt) # ""
    /\ currentContent # NoMarkup

\* handleRefineSubmit: whether it reaches the call onRefine(currentContent,
\* refinePrompt).
handleRefineSubmit(refinePrompt, busy, currentContent) ==
    /\ ~(Trim(refinePrompt) = "" \/ busy)
    /\ currentContent # NoMarkup

\* Variant of RefineSubmit: the content of the artifact held by App is
\* passed to onRefine in place of the serialization of the live document.
RefineSubmitSendsArtifact ==
    /\ Mounted
    /\ LET content == getSvgContent(editor.doc, editor.hasSvg)
       IN  IF handleRefineSubmit(editor.refinePrompt, isRefining, content) /\ currentSvg.id # 0
           THEN /\ CanStart
                /\ isRefining' = TRUE
                /\ error' = NoError
                /\ pending' = Append(pending, [kind |-> "refine", prompt |-> editor.refinePrompt,
                                               content |-> currentSvg.content,
                                               base |-> currentSvg])
           ELSE UNCHANGED <<isRefining, error, pending>>
    /\ UNCHANGED <<status, currentSvg, view, nextId, editor, edits>>

\* The form's submit handler and, when it calls onRefine, handleRefine up to
\* its await.
RefineSubmit ==
    /\ Mounted
    /\ LET content == getSvgContent(editor.doc, editor.hasSvg)
       IN  IF handleRefineSubmit(editor.refinePrompt, isRefining, content) /\ currentSvg.id # 0
           THEN /\ CanStart
                /\ isRefining' = TRUE
                /\ error' = NoError
                /\ pending' = Append(pending, [kind |-> "refine", prompt |-> editor.refinePrompt,
                                               content |-> content, base |-> currentSvg])
           ELSE UNCHANGED <<isRefining, error, pending>>
    /\ UNCHANGED <<status, currentSvg, view, nextId, editor, edits>>

\* The whole application: the request cycle, view changes, selection,
\* attribute edits, deletion, reset and saving.  The transform inputs, pointer
\* moves and the text input are exercised by EditorSpec below.
Next ==
    \/ \E p \in Prompts : HandleGenerate(p)
    \/ \E i \in 1..MaxArtifacts, m \in AIMarkups : GenerateResolve(i, m)
    \/ \E i \in 1..MaxArtifacts, m \in ErrMessages : GenerateReject(i, m)
    \/ \E i \in 1..MaxArtifacts, m \in AIMarkups : RefineResolve(i, m)
    \/ \E i \in 1..MaxArtifacts, m \in ErrMessages : RefineReject(i, m)
    \/ OnEdit
    \/ \E i \in 1..Len(editor.layers) : LayerClick(i)
    \/ Deselect
    \/ \E t \in 0..Len(editor.doc), x \in ScreenXs : MouseDown(t, x)
    \/ WindowMouseUp
    \/ \E a \in AttrNames, v \in EditValues : UpdateAttribute(a, v)
    \/ DeleteElement
    \/ Reset
    \/ \E s \in Instructions : SetRefinePrompt(s)
    \/ CopyCode
    \/ Download
    \/ ManualSave
    \/ BackWithSave
    \/ RefineSubmit

Spec == Init /\ [][Next]_vars

\* ------------------------------------------------ the Editor on its own
\* The artifacts a mounted editor is examined on, each with the scale its
\* <svg> is rendered at; the untransformed artifact also at 1:1.
EditorViews == {<<m, Zoom>> : m \in EditorMarkups} \cup {<<MarkupT(NoTf), 1>>}

\* The editor view just opened on an artifact (the state after a
\* generation resolved and onEdit): the Editor is mounted and its load
\* effect has run.
EditorInit ==
    \E v \in EditorViews : LET m == v[1]  z == v[2] IN
        /\ status = SUCCESS
        /\ currentSvg = [id |-> 1, content |-> m, prompt |-> "a red circle"]
        /\ error = NoError
        /\ isRefining = FALSE
        /\ view = "editor"
        /\ pending = <<>>
        /\ nextId = 2
        /\ editor = LoadEffect([InitialEditor EXCEPT !.ctm = z],
                               [id |-> 1, content |-> m, prompt |-> "a red circle"])
        /\ edits = 0

\* The handlers of the Editor that call none of onSave, onBack, onRefine.
EditorNext ==
    \/ \E i \in 1..Len(editor.layers) : LayerClick(i)
    \/ Deselect
    \/ \E t \in 0..Len(editor.doc), x \in ScreenXs : MouseDown(t, x)
    \/ WindowMouseUp
    \/ \E x \in MoveXs : WindowMouseMove(x)
    \/ \E f \in DOMAIN PanelInputs : \E v \in PanelInputs[f] : PanelTransform(f, v)
    \/ \E a \in AttrNames, v \in EditValues : UpdateAttribute(a, v)
    \/ \E v \in TextValues : TextEdit(v)
    \/ DeleteElement
    \/ Reset
    \/ CopyCode
    \/ Download

EditorSpec == EditorInit /\ [][EditorNext]_vars

\* The mounted Editor with the refinement cycle: selection, presses, the
\* transform inputs, the instruction field, submission and the answer of
\* the service, which brings a new artifact into the open editor.
RefineNext ==
    \/ \E i \in 1..Len(editor.layers) : LayerClick(i)
    \/ Deselect
    \/ \E t \in 0..Len(editor.doc), x \in ScreenXs : MouseDown(t, x)
    \/ \E f \in DOMAIN PanelInputs : \E v \in PanelInputs[f] : PanelTransform(f, v)
    \/ \E s \in Instructions : SetRefinePrompt(s)
    \/ RefineSubmit
    \/ \E i \in 1..MaxArtifacts, m \in AIMarkups : RefineResolve(i, m)
    \/ \E i \in 1..MaxArtifacts, m \in ErrMessages : RefineReject(i, m)

RefineSpec == EditorInit /\ [][RefineNext]_vars

\* An awaited call settles: the continuation of handleGenerate /
\* handleRefine after its await runs.
GenerateSettles ==
    \E i \in 1..MaxArtifacts :
        \/ \E m \in AIMarkups : GenerateResolve(i, m)
        \/ \E m \in ErrMessages : GenerateReject(i, m)
RefineSettles ==
    \E i \in 1..MaxArtifacts :
        \/ \E m \in AIMarkups : RefineResolve(i, m)
        \/ \E m \in ErrMessages : RefineReject(i, m)

\* The service answers every call (with a result or with a failure), and
\* the event loop then runs the continuation.
FairSpec == Spec /\ WF_vars(GenerateSettles) /\ WF_vars(RefineSettles)

\* ---------------------------------------------------- the layer scan
\* Fragments a scan is examined on by itself: up to MaxNodes elements with
\* tags in and out of the selector (a nested <svg>), every nesting,
\* attached to or removed from their parent, in a container that holds an
\* <svg> root or none (the elements then lie in the container itself).
ScanTags == {"g", "rect", "svg"}
ScanDoc(n, tags, parents, atts) ==
    LET m == ParseMarkup([svg |-> TRUE, norm |-> FALSE,
                          nodes |-> [j \in 1..n |->
                              El(tags[j], parents[j], Absent, Absent, 5, 5)]])
    IN  [i \in 1..n |-> [m[i] EXCEPT !.att = atts[i]]]

ScanInit ==
    \E n \in 0..MaxNodes, h \in BOOLEAN :
      \E parents \in [1..n -> 0..n] :
        /\ \A i \in 1..n : parents[i] < i
        /\ \E tags \in [1..n -> ScanTags], atts \in [1..n -> BOOLEAN] :
            /\ status = SUCCESS
            /\ currentSvg = [id |-> 1, content |-> NoMarkup, prompt |-> "a red circle"]
            /\ error = NoError
            /\ isRefining = FALSE
            /\ view = "editor"
            /\ pending = <<>>
            /\ nextId = 2
            /\ editor = [InitialEditor EXCEPT !.doc = ScanDoc(n, tags, parents, atts),
                                              !.hasSvg = h]
            /\ edits = 0

\* A call of scanLayers().
ScanLayers ==
    /\ editor' = [editor EXCEPT !.layers = scanLayers(editor.doc, editor.hasSvg)]
    /\ UNCHANGED edits
    /\ AppUnchanged

ScanNext == ScanLayers

ScanSpec == ScanInit /\ [][ScanNext]_vars

\* ------------------------------------------------ the colour control
\* The property panel about to render the fill colour control for a
\* selected element whose computed fill is one of ColorStrings.
ColorInit ==
    \E c \in ColorStrings :
        /\ status = SUCCESS
        /\ currentSvg = [id |-> 1, content |-> NoMarkup, prompt |-> "a red circle"]
        /\ error = NoError
        /\ isRefining = FALSE
        /\ view = "editor"
        /\ pending = <<>>
        /\ nextId = 2
        /\ editor = [InitialEditor EXCEPT !.picker.computed = c]
        /\ edits = 0

\* <input type="color" value={rgbToHex(currentFill)} />
RenderFillPicker ==
    /\ ~editor.picker.shown
    /\ editor' = [editor EXCEPT !.picker.value = rgbToHex(editor.picker.computed),
                                !.picker.shown = TRUE]
    /\ UNCHANGED edits
    /\ AppUnchanged

ColorNext == RenderFillPicker

ColorSpec == ColorInit /\ [][ColorNext]_vars

\* ------------------------------------------------------- properties
\* The nodes of the live document that carry class svg-selected.
MarkedNodes == {k \in 1..Len(editor.doc) :
                    InDoc(editor.doc, k) /\ editor.doc[k].cls = ClsMarked}

\* The awaited calls of one kind.
Awaited(kind) == {i \in 1..Len(pending) : pending[i].kind = kind}

\* The error banner of the home view is on screen.
HomeErrorShown ==
    view = "home" /\ status = ERROR /\ error # NoError /\ currentSvg = NoSvg

\* The error line of the editor view is on screen.
EditorErrorShown ==
    view = "editor" /\ currentSvg # NoSvg /\ error # NoError

HasMarker(m) == \E i \in 1..Len(m.nodes) : m.nodes[i].cls = ClsMarked

\* C1: in every reachable state at most one node of the live document
\* carries the class svg-selected.
C1_AtMostOneMarked == Cardinality(MarkedNodes) <= 1

\* C1 witness: node b is selected and marked while another node a of the
\* live document carries the emptied class attribute a previous selection
\* left behind (a was selected, then b).
C1_Witness ==
    \E a, b \in 1..Len(editor.doc) :
        /\ a # b
        /\ InDoc(editor.doc, a) /\ InDoc(editor.doc, b)
        /\ editor.selectedEl = b
        /\ editor.doc[b].cls = ClsMarked
        /\ editor.doc[a].cls = ClsEmpty

\* C2: a node of the live document carries the marker if and only if it is
\* the active selection; with no selection no node carries it.
C2_MarkerIffSelected ==
    /\ \A k \in 1..Len(editor.doc) :
          InDoc(editor.doc, k) => (editor.doc[k].cls = ClsMarked <=> editor.selectedEl = k)
    /\ editor.selectedEl = NullEl => MarkedNodes = {}

\* C2 witness: after select(node) and select(none): nothing is selected, no
\* node is marked, and a node shows the emptied class attribute of the
\* cleared highlight.
C2_Witness ==
    /\ Mounted
    /\ editor.selectedEl = NullEl
    /\ MarkedNodes = {}
    /\ \E k \in 1..Len(editor.doc) : InDoc(editor.doc, k) /\ editor.doc[k].cls = ClsEmpty

\* C3: no text produced by the serializer holds the class svg-selected: not
\* the text getSvgContent returns in the current state, not the content a
\* save committed, not the markup handed to an awaited refinement.
C3_SerializedHasNoMarker ==
    /\ ~HasMarker(getSvgContent(editor.doc, editor.hasSvg))
    /\ ~HasMarker(currentSvg.content)
    /\ \A i \in 1..Len(pending) : ~HasMarker(pending[i].content)

\* C3 witness: a node of the live document is selected and marked, and the
\* serialization of that very document is the markup of an awaited refinement.
C3_Witness ==
    /\ MarkedNodes # {}
    /\ \E i \in Awaited("refine") :
          pending[i].content = getSvgContent(editor.doc, editor.hasSvg)

\* C4: a serialization for copy, download, save or refine leaves the live
\* document, the selection, the transform state and the layer list as they
\* were.
C4_SerializingLeavesEditorUntouched ==
    [][(CopyCode \/ Download \/ ManualSave \/ RefineSubmit) =>
          /\ editor'.doc = editor.doc
          /\ editor'.selectedEl = editor.selectedEl
          /\ editor'.transform = editor.transform
          /\ editor'.layers = editor.layers]_vars

\* C5: at most one service call (generation or refinement) is awaited.
C5_AtMostOneInFlight == Len(pending) <= 1

\* C6: a step taken while the busy flag is set, or while the instruction is
\* blank, starts no refinement call; a refinement call is only ever started
\* by the submit handler (nothing is queued and started later), and at most
\* one is awaited.
C6_BusySubmissionRejected ==
    [][/\ (isRefining \/ Trim(editor.refinePrompt) = "") =>
              Cardinality(Awaited("refine")') <= Cardinality(Awaited("refine"))
       /\ Cardinality(Awaited("refine")') > Cardinality(Awaited("refine")) => RefineSubmit
       /\ Cardinality(Awaited("refine")') <= 1]_vars

\* C6 witness: a refinement is awaited, the editor is on screen and its
\* instruction field still holds a non-blank instruction, so a further
\* submission would call onRefine were the busy flag not consulted.
C6_Witness ==
    /\ Mounted
    /\ isRefining
    /\ Trim(editor.refinePrompt) # ""
    /\ getSvgContent(editor.doc, editor.hasSvg) # NoMarkup
    /\ Cardinality(Awaited("refine")) = 1

\* C7: whenever a generation call fails, the state after it has no current
\* artifact, status ERROR, the error titled 'Generation Failed' with a
\* detail message, and the home view shows it.
C7_GenerationFailure ==
    [][\A i \in 1..Len(pending), m \in ErrMessages :
          GenerateReject(i, m) =>
              /\ currentSvg' = NoSvg
              /\ status' = ERROR
              /\ error'.message = "Generation Failed"
              /\ error'.details # ""
              /\ HomeErrorShown']_vars

\* C8: whenever a refinement call fails, the current artifact is the one
\* the request was made for (same id, same content), the live document is
\* left in place, and the error titled 'Refinement Failed' is set and, in
\* the editor view, shown.
C8_RefinementFailure ==
    [][\A i \in 1..Len(pending), m \in ErrMessages :
          RefineReject(i, m) =>
              /\ currentSvg' = pending[i].base
              /\ editor'.doc = editor.doc
              /\ error'.message = "Refinement Failed"
              /\ error'.details # ""
              /\ view' = "editor" => EditorErrorShown']_vars

\* The busy flag is set only while a refinement call is awaited and the
\* status is LOADING only while a generation call is awaited.
BusyOnlyWhileAwaited ==
    /\ isRefining => Awaited("refine") # {}
    /\ status = LOADING => Awaited("generate") # {}

\* C9: a call that resolved or failed never leaves the system busy: the
\* busy flag is set only while a refinement call is awaited, the status is
\* LOADING only while a generation call is awaited, and (every awaited call
\* settling) the busy flag is always cleared again and the LOADING status is
\* always left again.
C9_NeverLeftBusy ==
    /\ []BusyOnlyWhileAwaited
    /\ []<>(~isRefining)
    /\ []<>(status # LOADING)

\* C9 witness: a refinement call failed: its error is set, no call is
\* awaited any more and the busy flag is clear.
C9_Witness ==
    /\ error.message = "Refinement Failed"
    /\ pending = <<>>
    /\ ~isRefining
    /\ status # LOADING

\* The nodes below node k in the tree d.
RECURSIVE Below(_, _, _)
Below(d, k, j) ==
    IF j < 1 \/ j > Len(d) THEN FALSE
    ELSE d[j].parent = k \/ Below(d, k, d[j].parent)

InSeq(q, x) == \E i \in 1..Len(q) : q[i] = x

\* C10: deleting the selected node takes it and its descendants out of the
\* live document (every other node stays), clears the selection, and the
\* next scan lists none of them; with nothing selected delete changes
\* nothing.
C10_DeleteSelected ==
    [][DeleteElement =>
          IF editor.selectedEl = NullEl THEN UNCHANGED vars
          ELSE LET k == editor.selectedEl
                   d == editor'.doc
                   next == scanLayers(d, editor'.hasSvg)
               IN  /\ editor'.selectedEl = NullEl
                   /\ editor'.layers = next
                   /\ Len(d) = Len(editor.doc)
                   /\ \A j \in 1..Len(d) :
                         IF j = k \/ Below(editor.doc, k, j)
                         THEN ~InDoc(d, j) /\ ~InSeq(next, j)
                         ELSE InDoc(d, j) = InDoc(editor.doc, j)
                                /\ d[j] = editor.doc[j]]_vars

\* C10 witness: a group that has a child was deleted: it is detached, both
\* are out of the document and out of the layer list, nothing is selected.
C10_Witness ==
    /\ Mounted
    /\ editor.selectedEl = NullEl
    /\ \E k, j \in 1..Len(editor.doc) :
          /\ ~editor.doc[k].att
          /\ editor.doc[j].parent = k
          /\ ~InDoc(editor.doc, j)
          /\ ~InSeq(editor.layers, k) /\ ~InSeq(editor.layers, j)

\* ------------------------------------------------ transform properties
\* A step of a handler that calls applyTransform.
AppliesTransform ==
    \/ \E f \in DOMAIN PanelInputs : \E v \in PanelInputs[f] : PanelTransform(f, v)
    \/ \E x \in MoveXs : WindowMouseMove(x) /\ editor.dragStartRef.set /\ editor.hasSvg

\* C11: a step that calls applyTransform changes, of the document, only the
\* transform attribute of the selected node; with nothing selected it
\* changes neither a node nor the transform state.
C11_TransformOnlySelected ==
    [][AppliesTransform =>
          IF editor.selectedEl = NullEl
          THEN editor'.doc = editor.doc /\ editor'.transform = editor.transform
          ELSE /\ Len(editor'.doc) = Len(editor.doc)
               /\ \A j \in 1..Len(editor.doc) :
                     IF j = editor.selectedEl
                     THEN editor'.doc[j] = [editor.doc[j] EXCEPT !.tf = editor'.doc[j].tf]
                     ELSE editor'.doc[j] = editor.doc[j]]_vars

\* C11 witness: the selected rect carries a written transform while the
\* text beside it still has the transform attribute it was loaded with.
C11_Witness ==
    /\ Mounted
    /\ editor.selectedEl = 2
    /\ editor.doc[2].tf # NoTf
    /\ editor.doc[1].tf # NoTf
    /\ editor.doc[1].tf = currentSvg.content.nodes[1].tf

\* C12: after a step that calls applyTransform with a node selected, the
\* node's transform attribute is translate(x, y) rotate(rotate, cx, cy)
\* scale(scale), in that order, x, y, rotate, scale being the new transform
\* state and (cx, cy) the center of the box the node has at that call.
C12_TransformStringForm ==
    [][(AppliesTransform /\ editor.selectedEl # NullEl) =>
          LET k == editor.selectedEl
              t == editor'.doc[k].tf
              st == editor'.transform
          IN  /\ Len(t) = 3
              /\ t[1].fn = "translate" /\ t[1].args = <<st.x, st.y>>
              /\ t[2].fn = "rotate" /\ Len(t[2].args) = 3 /\ t[2].args[1] = st.rotate
              /\ t[3].fn = "scale" /\ t[3].args = <<st.scale>>
              /\ editor.doc[k].box # NoBox =>
                     <<t[2].args[2], t[2].args[3]>> = editor.doc[k].box]_vars

\* C12 witness: the text was edited, which moved its box center away from
\* the one it was loaded with, and a transform applied afterwards pivots
\* about the new center.
C12_Witness ==
    /\ Mounted
    /\ editor.selectedEl = 1
    /\ editor.doc[1].box # NoBox
    /\ editor.doc[1].box # currentSvg.content.nodes[1].box
    /\ Len(editor.doc[1].tf) = 3
    /\ editor.doc[1].tf[2].args = <<editor.transform.rotate, editor.doc[1].box[1], editor.doc[1].box[2]>>

\* The matrix [a c e / b d f] of a point map x' = a x + c y + e,
\* y' = b x + d y + f.
Matrix(a, b, c, d, e, f) == [a |-> a, b |-> b, c |-> c, d |-> d, e |-> e, f |-> f]
\* m after n.
MatMul(m, n) ==
    Matrix(m.a * n.a + m.c * n.b, m.b * n.a + m.d * n.b,
           m.a * n.c + m.c * n.d, m.b * n.c + m.d * n.d,
           m.a * n.e + m.c * n.f + m.e, m.b * n.e + m.d * n.f + m.f)
\* Cosine and sine of a multiple of 90 degrees.
Cos(deg) == CASE deg % 360 = 0 -> 1 [] deg % 360 = 180 -> -1 [] OTHER -> 0
Sin(deg) == CASE deg % 360 = 90 -> 1 [] deg % 360 = 270 -> -1 [] OTHER -> 0
\* The matrix of one transform function, as SVG defines it: translate(tx)
\* is translate(tx, 0), rotate(a) turns about the origin, rotate(a, cx, cy)
\* about (cx, cy), scale(s) is scale(s, s).
FnMatrix(t) ==
    CASE t.fn = "translate" ->
            Matrix(1, 0, 0, 1, t.args[1], IF Len(t.args) > 1 THEN t.args[2] ELSE 0)
      [] t.fn = "scale" ->
            Matrix(t.args[1], 0, 0, IF Len(t.args) > 1 THEN t.args[2] ELSE t.args[1], 0, 0)
      [] OTHER ->
            LET r == Matrix(Cos(t.args[1]), Sin(t.args[1]), -Sin(t.args[1]), Cos(t.args[1]), 0, 0)
                cx == IF Len(t.args) = 3 THEN t.args[2] ELSE 0
                cy == IF Len(t.args) = 3 THEN t.args[3] ELSE 0
            IN  MatMul(Matrix(1, 0, 0, 1, cx, cy), MatMul(r, Matrix(1, 0, 0, 1, -cx, -cy)))
\* The effective transform of a transform attribute: the product of its
\* functions in the order written.
RECURSIVE Effective(_)
Effective(t) ==
    IF t = <<>> THEN Matrix(1, 0, 0, 1, 0, 0)
    ELSE MatMul(FnMatrix(Head(t)), Effective(Tail(t)))

\* The transform string holds each of translate, rotate, scale at most once
\* and nothing else.
SubsetString(t) ==
    /\ \A i \in 1..Len(t) : t[i].fn \in {"translate", "rotate", "scale"}
    /\ \A i, j \in 1..Len(t) : t[i].fn = t[j].fn => i = j

\* C13: when the values parsed from the selected node's transform string (a
\* subset of translate, rotate, scale) are written back unmodified, the
\* effective transform of the node is the one it had.
C13_ParseThenSerializeKeepsTransform ==
    [][\A f \in DOMAIN PanelInputs :
          (/\ PanelTransform(f, editor.transform[f])
           /\ editor.selectedEl # NullEl
           /\ SubsetString(editor.doc[editor.selectedEl].tf)
           /\ editor.transform = ParseTransform(editor.doc[editor.selectedEl].tf))
          => Effective(editor'.doc[editor.selectedEl].tf)
                 = Effective(editor.doc[editor.selectedEl].tf)]_vars

\* The arguments of the first function named fn of a transform string.
Component(t, fn) == Match(t, fn, {1, 2, 3}, 1)

\* The transform state a transform string stands for: x and y from
\* translate, rotate from the first argument of rotate, scale from scale,
\* the identity value for what is absent.
StateOf(t) ==
    [x |-> IF Component(t, "translate") # <<>> THEN Component(t, "translate")[1] ELSE 0,
     y |-> IF Len(Component(t, "translate")) > 1 THEN Component(t, "translate")[2] ELSE 0,
     rotate |-> IF Component(t, "rotate") # <<>> THEN Component(t, "rotate")[1] ELSE 0,
     scale |-> IF Component(t, "scale") # <<>> THEN Component(t, "scale")[1] ELSE 1]

\* C14: whenever the selection changes to a node, the transform state is
\* the state that node's transform attribute stands for (the identity state
\* for a node without the attribute).
C14_SelectionParsesTransform ==
    [][(editor'.selectedEl # NullEl /\ editor'.selectedEl # editor.selectedEl) =>
          editor'.transform = StateOf(editor'.doc[editor'.selectedEl].tf)]_vars

\* ------------------------------------------------ attribute properties
\* getComputedStyle(element)[attr]: the inline declaration, else the
\* declaration of a style-sheet rule, else the presentation attribute, else
\* the value inherited from the parent (black at the root).
RECURSIVE ComputedStyle(_, _, _)
ComputedStyle(d, k, attr) ==
    IF k < 1 \/ k > Len(d) THEN "black"
    ELSE IF d[k].style[attr] # Absent THEN d[k].style[attr]
    ELSE IF d[k].rule[attr] # Absent THEN d[k].rule[attr]
    ELSE IF d[k].attrs[attr] # Absent THEN d[k].attrs[attr]
    ELSE ComputedStyle(d, d[k].parent, attr)

\* A step updateAttribute(attr, value) on a selected element.
EditsAttribute(attr, value) == UpdateAttribute(attr, value) /\ editor.selectedEl # NullEl

\* C15 as stated: after updateAttribute(attr, none) the attribute is "none"
\* and the element has no inline declaration for attr.
C15_NoneClearsInlineStyle ==
    [][\A attr \in AttrNames, value \in {NullValue, "none"} :
          EditsAttribute(attr, value) =>
              /\ editor'.doc[editor.selectedEl].attrs[attr] = "none"
              /\ editor'.doc[editor.selectedEl].style[attr] = Absent]_vars

\* C15 amended: after updateAttribute(attr, none) the attribute is "none";
\* an inline declaration for attr that existed is set to "none" (it is not
\* removed), and none is created where none existed.
C15_NoneOverwritesInlineStyle ==
    [][\A attr \in AttrNames, value \in {NullValue, "none"} :
          EditsAttribute(attr, value) =>
              /\ editor'.doc[editor.selectedEl].attrs[attr] = "none"
              /\ editor'.doc[editor.selectedEl].style[attr] =
                     IF editor.doc[editor.selectedEl].style[attr] # Absent
                     THEN "none" ELSE Absent]_vars

\* C15 witness: the selected element was loaded with an inline fill and now
\* has fill="none" and the inline declaration fill: none.
C15_Witness ==
    /\ Mounted
    /\ editor.selectedEl # NullEl
    /\ \E attr \in AttrNames :
          /\ editor.doc[editor.selectedEl].attrs[attr] = "none"
          /\ editor.doc[editor.selectedEl].style[attr] = "none"
          /\ currentSvg.content.nodes[editor.selectedEl].style[attr] \notin {Absent, "none"}

\* C16: after updateAttribute('fill', none) the computed fill of the
\* element is "none".
C16_NoneResolvesToNone ==
    [][\A value \in {NullValue, "none"} :
          EditsAttribute("fill", value) =>
              ComputedStyle(editor'.doc, editor.selectedEl, "fill") = "none"]_vars

\* C17: after updateAttribute(attr, value) with a value other than none the
\* attribute is value; an inline declaration that existed is value too; none
\* is created where none existed; so a declaration present afterwards equals
\* the attribute.
C17_AttributeAndStyleAgree ==
    [][\A attr \in AttrNames, value \in EditValues \ {NullValue, "none"} :
          EditsAttribute(attr, value) =>
              LET before == editor.doc[editor.selectedEl]
                  after == editor'.doc[editor.selectedEl]
              IN  /\ after.attrs[attr] = value
                  /\ before.style[attr] # Absent => after.style[attr] = value
                  /\ before.style[attr] = Absent => after.style[attr] = Absent
                  /\ after.style[attr] # Absent => after.style[attr] = after.attrs[attr]]_vars

\* C17 witness: an element loaded with an inline fill red now has the
\* attribute and the inline declaration #00ff00.
C17_Witness ==
    /\ Mounted
    /\ editor.selectedEl # NullEl
    /\ editor.doc[editor.selectedEl].attrs["fill"] = "#00ff00"
    /\ editor.doc[editor.selectedEl].style["fill"] = "#00ff00"
    /\ currentSvg.content.nodes[editor.selectedEl].style["fill"] = "red"

\* The value updateAttribute is to give the attribute.
Wanted(value) == IF value \in {NullValue, "none"} THEN "none" ELSE value

\* C18: an attribute edit changes the selected element only, and of it only
\* the attribute (and inline declaration) named: in the serialization taken
\* after the edit the element has the wanted value and every other element
\* is written as it was before the edit; when only that element had been
\* selected since the load, every other element is written as in the loaded
\* markup; with nothing selected the edit changes nothing of the editor.
C18_AttributeEditOnlySelected ==
    [][\A attr \in AttrNames, value \in EditValues :
          UpdateAttribute(attr, value) =>
              IF editor.selectedEl = NullEl THEN editor' = editor
              ELSE LET k == editor.selectedEl
                       before == getSvgContent(editor.doc, editor.hasSvg)
                       out == getSvgContent(editor'.doc, editor'.hasSvg)
                       loaded == currentSvg.content.nodes
                       r == Rank(editor.doc, k)
                   IN  /\ \A j \in 1..Len(editor.doc) : j # k => editor'.doc[j] = editor.doc[j]
                       /\ Len(out.nodes) = Len(before.nodes)
                       /\ \A i \in 1..Len(out.nodes) : i # r => out.nodes[i] = before.nodes[i]
                       /\ out.nodes[r].attrs[attr] = Wanted(value)
                       /\ out.nodes[r].style[attr] \in {Absent, Wanted(value)}
                       /\ out.nodes[r] = [before.nodes[r] EXCEPT
                                              !.attrs[attr] = out.nodes[r].attrs[attr],
                                              !.style[attr] = out.nodes[r].style[attr]]
                       /\ (\A j \in 1..Len(editor.doc) :
                               j # k => /\ editor.doc[j].att
                                        /\ [editor.doc[j] EXCEPT !.att = TRUE]
                                             = ParseMarkup(currentSvg.content)[j])
                           => \A i \in 1..Len(out.nodes) : i # r => out.nodes[i] = loaded[i]]_vars

\* C18 witness: the selected element has fill #00ff00 and the other element
\* of the document is as it was loaded.
C18_Witness ==
    /\ Mounted
    /\ editor.selectedEl # NullEl
    /\ editor.doc[editor.selectedEl].attrs["fill"] = "#00ff00"
    /\ Len(getSvgContent(editor.doc, editor.hasSvg).nodes) = Len(editor.doc)
    /\ getSvgContent(editor.doc, editor.hasSvg).nodes[editor.selectedEl].attrs["fill"] = "#00ff00"
    /\ \E j \in 1..Len(editor.doc) :
          /\ j # editor.selectedEl
          /\ getSvgContent(editor.doc, editor.hasSvg).nodes[j] = currentSvg.content.nodes[j]

\* ------------------------------------------------ drag properties
\* A pointer press whose closest shape in the container is the node k
\* (NullEl: the press is on the <svg> root or the bare container).
PressOn(k) ==
    \E t \in 0..Len(editor.doc), x \in ScreenXs :
        /\ MouseDown(t, x)
        /\ k = (IF Closest(editor.doc, t) # NullEl /\ InDoc(editor.doc, Closest(editor.doc, t))
                THEN Closest(editor.doc, t) ELSE NullEl)

\* A step starts a drag: isDragging is raised or a drag-start record is written.
StartsDrag ==
    \/ ~editor.isDragging /\ editor'.isDragging
    \/ editor'.dragStartRef.set /\ editor'.dragStartRef # editor.dragStartRef

\* C19: a step starts a drag only if it is a press on the node selected at
\* the time of the press, and that press leaves the selection alone; a press
\* on another shape makes that shape the selection and starts no drag; a
\* press on empty canvas clears the selection and starts no drag.
C19_DragStartsOnSelectedOnly ==
    [][/\ StartsDrag =>
            /\ editor.selectedEl # NullEl
            /\ PressOn(editor.selectedEl)
            /\ editor'.selectedEl = editor.selectedEl
            /\ editor'.isDragging
            /\ editor'.dragStartRef.set
            /\ editor'.dragStartRef.initialX = editor.transform.x
            /\ editor'.dragStartRef.initialY = editor.transform.y
       /\ \A k \in 1..Len(editor.doc) :
              (PressOn(k) /\ k # editor.selectedEl) =>
                 editor'.selectedEl = k /\ ~StartsDrag
       /\ PressOn(NullEl) => editor'.selectedEl = NullEl /\ ~StartsDrag]_vars

\* C19 witness: a drag begun by a press on the selected node; the record
\* holds the position of the press and the x and y of the transform state.
C19_Witness ==
    /\ Mounted
    /\ editor.selectedEl # NullEl
    /\ editor.isDragging
    /\ editor.dragStartRef.set
    /\ editor.dragStartRef.x \in ScreenXs
    /\ editor.dragStartRef.initialX = editor.transform.x
    /\ editor.doc[editor.selectedEl].cls = ClsMarked

\* C20: a step that makes a different node the selection while a drag is in
\* progress leaves no drag in progress and no drag-start record, so that a
\* later pointer move does not write the transform of the new selection.
C20_SelectingOtherCancelsDrag ==
    [][(/\ editor.isDragging
        /\ editor.selectedEl # NullEl
        /\ editor'.selectedEl # NullEl
        /\ editor'.selectedEl # editor.selectedEl)
          => /\ ~editor'.isDragging
             /\ ~editor'.dragStartRef.set
             /\ \A x \in MoveXs : handleWindowMouseMove(editor', x, 0) = editor']_vars

\* A pointer move at clientX that reaches applyTransform: a drag is in
\* progress on a selected node of a rendered <svg>.
DragMoves(clientX) ==
    /\ WindowMouseMove(clientX)
    /\ editor.selectedEl # NullEl
    /\ editor.dragStartRef.set
    /\ editor.hasSvg

\* v (in tenths) is num / den user units rounded to one decimal place.
IsRounded(v, num, den) ==
    LET diff == 10 * num - v * den
    IN  2 * diff <= den /\ 2 * diff >= -den

\* C21: after every pointer move of a drag, x and y of the transform state
\* and of the node's translate(x, y) are the values recorded at the press
\* plus the displacement of the pointer since the press divided by the
\* screen scale, rounded to one decimal place; the record of the press is
\* left as it is, so a later move starts from the same recorded values. At
\* 1:1 scale a move 50 to the right of the press raises x by 50 units over
\* the recorded x and leaves y at the recorded y.
C21_DragFollowsTotalDisplacement ==
    [][\A cx \in MoveXs : DragMoves(cx) =>
          LET r == editor.dragStartRef
              z == editor.ctm
              nx == editor'.transform.x
              ny == editor'.transform.y
          IN  /\ IsRounded(nx, r.initialX * z + 10 * (cx - r.x), 10 * z)
              /\ IsRounded(ny, r.initialY * z + 10 * (0 - r.y), 10 * z)
              /\ editor'.doc[editor.selectedEl].tf[1] = Fn("translate", <<nx, ny>>)
              /\ editor'.dragStartRef = r
              /\ editor'.isDragging
              /\ (z = 1 /\ cx - r.x = 50 /\ r.y = 0) =>
                     nx = r.initialX + 500 /\ ny = r.initialY]_vars

\* C21 witness: a drag that began at x = 10 (y = 5) units and moved the
\* pointer 50 pixels at 3 pixels per unit: x is 10 + 16.7 units, y is 5.
C21_Witness ==
    /\ Mounted
    /\ editor.isDragging
    /\ editor.selectedEl # NullEl
    /\ editor.ctm = 3
    /\ editor.dragStartRef.initialX = 100
    /\ editor.dragStartRef.initialY = 50
    /\ editor.transform.x = 267
    /\ editor.transform.y = 50
    /\ editor.doc[editor.selectedEl].tf[1] = Fn("translate", <<267, 50>>)

\* C22: a pointer release leaves no drag in progress and no record of the
\* press, and changes neither the document nor the selection nor the
\* transform state; in every state a step leaves without a drag in progress
\* a pointer move changes nothing of the editor; and a drag is in progress
\* again only after a press on the selected node.
C22_ReleaseEndsDrag ==
    [][/\ WindowMouseUp =>
            /\ ~editor'.isDragging
            /\ editor'.dragStartRef = NoDragStart
            /\ editor'.doc = editor.doc
            /\ editor'.selectedEl = editor.selectedEl
            /\ editor'.transform = editor.transform
       /\ ~editor'.isDragging =>
            /\ ~editor'.dragStartRef.set
            /\ \A x \in MoveXs : handleWindowMouseMove(editor', x, 0) = editor'
       /\ (~editor.isDragging /\ editor'.isDragging) =>
            editor.selectedEl # NullEl /\ PressOn(editor.selectedEl)]_vars

\* C22 witness: a drag moved the selected node by 50 pixels and was ended
\* by a release: the node keeps the dragged position, no drag is in
\* progress and no record of the press is left.
C22_Witness ==
    /\ Mounted
    /\ ~editor.isDragging
    /\ editor.dragStartRef = NoDragStart
    /\ editor.selectedEl # NullEl
    /\ editor.ctm = Zoom
    /\ editor.transform.x = 167
    /\ editor.doc[editor.selectedEl].tf # NoTf
    /\ editor.doc[editor.selectedEl].tf[1] = Fn("translate", <<167, 0>>)

\* ------------------------------------------------ layer properties
\* C23: the sequence a scan returns holds exactly the nodes of the live
\* document whose tag is one of path, rect, circle, ellipse, line, polyline,
\* polygon, text, g (so never an <svg>), each once, in document order; it
\* is empty when the container holds no <svg>. The layer list holds nothing
\* else than the result of a scan.
C23_ScanListsShapesInOrder ==
    LET d == editor.doc
        l == scanLayers(d, editor.hasSvg)
    IN  /\ editor.layers \in {<<>>, l}
        /\ ~editor.hasSvg => l = <<>>
        /\ editor.hasSvg =>
              /\ \A i \in 1..Len(l) :
                    /\ l[i] \in 1..Len(d)
                    /\ InDoc(d, l[i])
                    /\ d[l[i]].tag \in {"path", "rect", "circle", "ellipse", "line",
                                         "polyline", "polygon", "text", "g"}
              /\ \A i, j \in 1..Len(l) : i < j => l[i] < l[j]
              /\ \A k \in 1..Len(d) :
                    (InDoc(d, k) /\ d[k].tag \in ShapeTags) => \E i \in 1..Len(l) : l[i] = k

\* C23 witness: a scan listed a group and the rect inside it and left out a
\* nested <svg>.
C23_Witness ==
    /\ Len(editor.doc) = 3
    /\ editor.hasSvg
    /\ editor.doc[1].tag = "g" /\ editor.doc[2].tag = "rect" /\ editor.doc[3].tag = "svg"
    /\ editor.doc[2].parent = 1
    /\ editor.layers = <<1, 2>>

\* C24: whenever the editor is mounted (after a load, a reset, a delete, a
\* text edit has completed) the layer list holds no node that is out of the
\* live document, holds every shape node of the live document under the
\* <svg>, and equals a fresh scan.
C24_LayersMatchDocument ==
    Mounted =>
        /\ \A i \in 1..Len(editor.layers) :
              /\ editor.layers[i] \in 1..Len(editor.doc)
              /\ InDoc(editor.doc, editor.layers[i])
        /\ \A k \in 1..Len(editor.doc) :
              (editor.hasSvg /\ InDoc(editor.doc, k) /\ editor.doc[k].tag \in ShapeTags)
                 => InSeq(editor.layers, k)
        /\ editor.layers = scanLayers(editor.doc, editor.hasSvg)

\* C24 witness: a shape was deleted from a document of two shapes; the
\* layer list holds the one that is left.
C24_Witness ==
    /\ Mounted
    /\ Len(editor.doc) = 2
    /\ \E k \in 1..2 : ~editor.doc[k].att /\ editor.doc[k].tag \in ShapeTags
    /\ Len(editor.layers) = 1
    /\ InDoc(editor.doc, editor.layers[1])

\* ------------------------------------------------ artifact properties
\* C25: the content and prompt held under an artifact id never change: a
\* step that leaves the id of the current artifact as it is leaves the
\* whole artifact as it is, and a step that brings a new current artifact
\* brings one with an id not given out before.
C25_ArtifactImmutable ==
    [][/\ currentSvg'.id = currentSvg.id => currentSvg' = currentSvg
       /\ (currentSvg'.id # currentSvg.id /\ currentSvg'.id # 0) =>
              currentSvg'.id = nextId /\ nextId' > nextId]_vars

\* C26: a Reset makes the live document the document of the content the
\* service delivered for the artifact (whatever was edited or saved since),
\* clears the selection and leaves the layer list a scan of that document;
\* a second Reset changes nothing.
C26_ResetRestoresOriginal ==
    [][Reset =>
          /\ \E m \in AIMarkups \cup EditorMarkups :
                /\ editor'.doc = ParseMarkup(m)
                /\ editor'.hasSvg = m.svg
          /\ editor'.selectedEl = NullEl
          /\ editor'.layers = scanLayers(editor'.doc, editor'.hasSvg)
          /\ ResetToOriginal(editor', currentSvg') = editor']_vars

\* An artifact with another id becomes the data of the mounted Editor.
ArtifactArrives == Mounted /\ Mounted' /\ currentSvg'.id # currentSvg.id

\* C27: when an artifact arrives in the mounted editor, the live document
\* is the parse of the artifact's content and nothing else (every node is a
\* node of that parse, attached, none carries the marker), nothing is
\* selected, the transform state is the identity, the instruction field is
\* empty and the layer list is a scan of the new document.
C27_ArrivalReplacesDocument ==
    [][ArtifactArrives =>
          /\ editor'.doc = ParseMarkup(currentSvg'.content)
          /\ editor'.hasSvg = currentSvg'.content.svg
          /\ \A k \in 1..Len(editor'.doc) :
                editor'.doc[k].att /\ editor'.doc[k].cls # ClsMarked
          /\ editor'.selectedEl = NullEl
          /\ editor'.transform = IdentityTransform
          /\ editor'.refinePrompt = ""
          /\ editor'.layers = scanLayers(editor'.doc, editor'.hasSvg)]_vars

\* C27 witness: the refined artifact arrived in the open editor.
C27_Witness ==
    /\ Mounted
    /\ currentSvg.id > 1
    /\ currentSvg.prompt = "make it blue"
    /\ editor.doc = ParseMarkup(currentSvg.content)
    /\ Len(editor.layers) > 0
    /\ editor.selectedEl = NullEl
    /\ editor.transform = IdentityTransform
    /\ editor.refinePrompt = ""

\* ------------------------------------------------ serialization properties
\* The markup c is the live document of the editor e written out: one
\* element for every node in the document, in document order, with the
\* node's tag, attributes, inline style, text and transform as they are now,
\* and without the marker class.
WritesLiveDocument(c, e) ==
    /\ c.svg
    /\ Len(c.nodes) = Rank(e.doc, Len(e.doc))
    /\ \A k \in 1..Len(e.doc) :
          InDoc(e.doc, k) =>
             LET n == c.nodes[Rank(e.doc, k)]
             IN  /\ n.tag = e.doc[k].tag
                 /\ n.attrs = e.doc[k].attrs
                 /\ n.style = e.doc[k].style
                 /\ n.text = e.doc[k].text
                 /\ n.tf = e.doc[k].tf
                 /\ n.parent = Rank(e.doc, e.doc[k].parent)
                 /\ n.cls # ClsMarked

\* C28: the markup a step passes to a new refinement call is the live
\* document written out at that moment, without the marker; the content a
\* step commits to the artifact of the open editor (a manual save) is the
\* same; and both equal the text copy and download produce in that state.
C28_OneSerializationForAll ==
    [][/\ (Len(pending') > Len(pending) /\ pending'[Len(pending')].kind = "refine") =>
            LET c == pending'[Len(pending')].content
            IN  /\ WritesLiveDocument(c, editor)
                /\ c = ClipboardText(editor)
                /\ c = DownloadText(editor)
       /\ (Mounted /\ Mounted' /\ currentSvg'.id = currentSvg.id
             /\ currentSvg'.content # currentSvg.content) =>
            /\ WritesLiveDocument(currentSvg'.content, editor)
            /\ currentSvg'.content = ClipboardText(editor)
            /\ currentSvg'.content = DownloadText(editor)]_vars

\* C28 witness: a refinement call in flight whose markup holds an edit
\* (fill #00ff00) that the artifact held by App at the submission lacks.
C28_Witness ==
    \E i \in 1..Len(pending) :
        /\ pending[i].kind = "refine"
        /\ \E k \in 1..Len(pending[i].content.nodes) :
              /\ pending[i].content.nodes[k].attrs["fill"] = "#00ff00"
              /\ k \in 1..Len(pending[i].base.content.nodes)
              /\ pending[i].base.content.nodes[k].attrs["fill"] # "#00ff00"

\* C29: when getBBox() of the selected node throws, a transform input sets
\* the transform state to the requested one and a transform step writes
\* translate(x, y) rotate(rotate, 0, 0) scale(scale) of the new state to
\* the node; the handler is not cut short.
C29_BBoxFailureFallsBack ==
    [][(editor.selectedEl # NullEl /\ editor.doc[editor.selectedEl].box = NoBox) =>
          /\ \A f \in DOMAIN PanelInputs : \A v \in PanelInputs[f] :
                PanelTransform(f, v) =>
                    editor'.transform = [editor.transform EXCEPT ![f] = v]
          /\ AppliesTransform =>
                LET st == editor'.transform
                IN  editor'.doc[editor.selectedEl].tf =
                       << Fn("translate", <<st.x, st.y>>),
                          Fn("rotate", <<st.rotate, 0, 0>>),
                          Fn("scale", <<st.scale>>) >>]_vars

\* C29 witness: the text whose getBBox() throws was turned by 90 degrees:
\* its transform attribute pivots about (0, 0).
C29_Witness ==
    /\ Mounted
    /\ editor.selectedEl # NullEl
    /\ editor.doc[editor.selectedEl].box = NoBox
    /\ editor.transform.rotate = 90
    /\ editor.doc[editor.selectedEl].tf =
          << Fn("translate", <<0, 0>>), Fn("rotate", <<90, 0, 0>>), Fn("scale", <<1>>) >>

\* ------------------------------------------------ colour properties
\* A colour string the control can show as it is or convert: a hex colour,
\* or a functional form rgb(...) / rgba(...) with three channel values.
UsableColor(col) ==
    \/ StartsWith(col, <<"#">>)
    \/ StartsWith(col, <<"r", "g", "b">>) /\ Len(DigitRuns(col, 1, <<>>)) >= 3

\* C30: whatever string that is not a usable colour the control is rendered
\* for (empty, none, transparent, a string that is no RGB functional form),
\* its value is the one default colour, the colour shown for the empty
\* string.
C30_OneDefaultColor ==
    (editor.picker.shown /\ ~UsableColor(editor.picker.computed))
        => editor.picker.value = rgbToHex(<<>>)

\* ------------------------------------------- request-order properties
\* The awaited refinement call i is answered in this step although a
\* generation was started after it was submitted: the artifact App holds is
\* no longer the one the refinement was submitted for (handleGenerate
\* cleared it, and may have put its own artifact there since).
StaleRefinementAnswered ==
    \E i \in 1..Len(pending) :
        /\ pending[i].kind = "refine"
        /\ pending' = RemoveAt(pending, i)
        /\ isRefining /\ ~isRefining'
        /\ currentSvg.id # pending[i].base.id

\* C31: the answer to a refinement that arrives after a later-submitted
\* generation has started or completed leaves the current artifact and the
\* status as that generation set them.
C31_StaleRefinementIgnored ==
    [][StaleRefinementAnswered => (currentSvg' = currentSvg /\ status' = status)]_vars

\* The live document without its selection markers (what an edit, as
\* opposed to a change of selection, alters).
Unmarked(d) == [k \in 1..Len(d) |-> [d[k] EXCEPT !.cls = ClsAbsent]]

\* C32: while a refinement call is awaited and the editor is shown, no step
\* changes the live document (selection markers aside) or the current
\* artifact; and when the call is answered in the shown editor, the live
\* document still serializes to the markup that was submitted.
C32_FrozenWhileRefining ==
    [][/\ (isRefining /\ isRefining' /\ Mounted) =>
            /\ currentSvg' = currentSvg
            /\ Mounted' => Unmarked(editor'.doc) = Unmarked(editor.doc)
       /\ (isRefining /\ ~isRefining' /\ Mounted) =>
            \A i \in 1..Len(pending) :
                (pending[i].kind = "refine" /\ pending' = RemoveAt(pending, i)) =>
                    getSvgContent(editor.doc, editor.hasSvg) = pending[i].content]_vars

\* ------------------------------------------------ selection properties
\* The selection of the editor e, when there is one, is a node in e's live
\* document.
SelectionAttached(e) == e.selectedEl # NullEl => InDoc(e.doc, e.selectedEl)

\* C33: after every step the selection, when not none, is a node in the
\* live document, and stays one under every edit of the Text Content input;
\* a step that fills the container anew (the load effect after the artifact
\* or its content changed, Reset) leaves nothing selected, so no reference
\* to a node of the replaced document is kept.
C33_SelectionInDocument ==
    [][/\ SelectionAttached(editor')
       /\ (editor'.selectedEl # NullEl
             /\ editor'.doc[editor'.selectedEl].tag \in {"text", "tspan"}) =>
             \A v \in TextValues : SelectionAttached(setTextContent(editor', v))
       /\ (Mounted' /\ currentSvg' # currentSvg) => editor'.selectedEl = NullEl
       /\ Reset => editor'.selectedEl = NullEl]_vars

\* C33 witness: the rect was deleted (it is detached, and was the
\* selection) and the group was selected afterwards: the selection is a
\* node in the document although the document lost a node that was selected.
C33_Witness ==
    /\ Mounted
    /\ editor.selectedEl # NullEl
    /\ InDoc(editor.doc, editor.selectedEl)
    /\ \E k \in 1..Len(editor.doc) : ~editor.doc[k].att /\ editor.doc[k].cls = ClsMarked

\* C34: while a drag is in progress a node is selected and the record of
\* the press that began the drag exists.
C34_DragImpliesSelection ==
    editor.isDragging => (editor.selectedEl # NullEl /\ editor.dragStartRef.set)

\* ------------------------------------------------ view properties
\* C35: in every state the view is 'editor' only while a current artifact
\* exists, and status SUCCESS implies that a current artifact exists.
C35_EditorAndSuccessHaveArtifact ==
    /\ view = "editor" => currentSvg.id # 0
    /\ status = SUCCESS => currentSvg.id # 0

\* C35 witness: the editor is open on an artifact while a generation
\* started after it is still awaited (the answer of an earlier refinement
\* arrived in between and the user opened the editor on it).
C35_Witness ==
    /\ view = "editor"
    /\ status = SUCCESS
    /\ currentSvg.id # 0
    /\ \E i \in 1..Len(pending) : pending[i].kind = "generate"

\* ------------------------------------- the transform attribute as text
\* A Number of the transform state: zero, or sign * 0.d1...dk * 10^n with
\* the decimal digits d1...dk (d1 and dk not 0) in digits.
Num(neg, digits, n) == [neg |-> neg, digits |-> digits, n |-> n]
Zero == Num(FALSE, <<>>, 0)
NaN == Num(FALSE, <<"N", "a", "N">>, 0)

\* n copies of the character "0".
Zeros(n) == [i \in 1..n |-> "0"]

\* Number::toString, the conversion a template literal applies to a number:
\* plain decimal notation when the decimal point lies within 21 digits
\* before and 6 zeros after it, exponent notation otherwise.
NumberToString(v) ==
    LET k == Len(v.digits)
        n == v.n
        sign == IF v.neg THEN <<"-">> ELSE <<>>
        exp == (IF n - 1 < 0 THEN <<"e", "-">> ELSE <<"e", "+">>)
                  \o NumToString(IF n - 1 < 0 THEN 1 - n ELSE n - 1, DecDigits)
    IN  IF k = 0 THEN <<"0">>
        ELSE IF k <= n /\ n <= 21 THEN sign \o v.digits \o Zeros(n - k)
        ELSE IF 0 < n /\ n <= 21
             THEN sign \o SubSeq(v.digits, 1, n) \o <<".">> \o SubSeq(v.digits, n + 1, k)
        ELSE IF -6 < n /\ n <= 0 THEN sign \o <<"0", ".">> \o Zeros(-n) \o v.digits
        ELSE IF k = 1 THEN sign \o v.digits \o exp
        ELSE sign \o <<v.digits[1], ".">> \o SubSeq(v.digits, 2, k) \o exp

\* The length of the longest run of characters of s from position i on
\* that satisfy the class (a greedy quantifier).
RECURSIVE RunLen(_, _, _)
RunLen(s, i, class) ==
    IF i <= Len(s) /\ s[i] \in class THEN 1 + RunLen(s, i + 1, class) ELSE 0

\* [-\d.] and [, ] of the regular expressions of the parse effect.
NumClass == {"-", "."} \cup {DecDigits[i] : i \in 1..Len(DecDigits)}
SepClass == {",", " "}

\* A run of digits without its leading / trailing zeros.
RECURSIVE StripLeft(_)
StripLeft(ds) == IF ds # <<>> /\ ds[1] = "0" THEN StripLeft(Tail(ds)) ELSE ds
RECURSIVE StripRight(_)
StripRight(ds) ==
    IF ds # <<>> /\ ds[Len(ds)] = "0" THEN StripRight(SubSeq(ds, 1, Len(ds) - 1)) ELSE ds

\* parseFloat of a string of characters of [-\d.]: an optional minus, the
\* digits before the point, an optional point with the digits after it;
\* what follows is ignored, and without any digit the result is NaN.
parseFloat(s) ==
    LET neg == s # <<>> /\ s[1] = "-"
        i0 == IF neg THEN 2 ELSE 1
        ni == RunLen(s, i0, NumClass \ {"-", "."})
        int == SubSeq(s, i0, i0 + ni - 1)
        dot == i0 + ni <= Len(s) /\ s[i0 + ni] = "."
        nf == IF dot THEN RunLen(s, i0 + ni + 1, NumClass \ {"-", "."}) ELSE 0
        frac == SubSeq(s, i0 + ni + 1, i0 + ni + nf)
        all == StripLeft(int \o frac)
    IN  IF ni + nf = 0 THEN NaN
        ELSE IF StripRight(all) = <<>> THEN Zero
        ELSE Num(neg, StripRight(all), Len(all) - Len(frac))

\* The template literal of applyTransform on the character level:
\* `translate(${x}, ${y}) rotate(${rotate}, ${cx}, ${cy}) scale(${scale})`.
TemplateLiteral(st, c) ==
    <<"t", "r", "a", "n", "s", "l", "a", "t", "e", "(">>
       \o NumberToString(st.x) \o <<",", " ">> \o NumberToString(st.y) \o <<")", " ">>
       \o <<"r", "o", "t", "a", "t", "e", "(">>
       \o NumberToString(st.rotate) \o <<",", " ">> \o NumberToString(c[1])
       \o <<",", " ">> \o NumberToString(c[2]) \o <<")", " ">>
       \o <<"s", "c", "a", "l", "e", "(">> \o NumberToString(st.scale) \o <<")">>

\* s has the characters of lit at position p.
HasAt(s, p, lit) == p + Len(lit) - 1 <= Len(s) /\ SubSeq(s, p, p + Len(lit) - 1) = lit

\* s.match(/translate\(([-\d.]+)[, ]+([-\d.]+)\)/): the two groups of the
\* leftmost match starting at p or later, <<>> for null. The classes of
\* neighbouring parts are disjoint, so each greedy run is the only candidate.
RECURSIVE MatchTranslate(_, _)
MatchTranslate(s, p) ==
    LET lit == <<"t", "r", "a", "n", "s", "l", "a", "t", "e", "(">>
        a == p + Len(lit)
        n1 == RunLen(s, a, NumClass)
        ns == RunLen(s, a + n1, SepClass)
        b == a + n1 + ns
        n2 == RunLen(s, b, NumClass)
    IN  IF p > Len(s) THEN <<>>
        ELSE IF HasAt(s, p, lit) /\ n1 > 0 /\ ns > 0 /\ n2 > 0 /\ HasAt(s, b + n2, <<")">>)
             THEN <<SubSeq(s, a, a + n1 - 1), SubSeq(s, b, b + n2 - 1)>>
        ELSE MatchTranslate(s, p + 1)

\* s.match(/rotate\(([-\d.]+)/)
RECURSIVE MatchRotate(_, _)
MatchRotate(s, p) ==
    LET lit == <<"r", "o", "t", "a", "t", "e", "(">>
        a == p + Len(lit)
        n1 == RunLen(s, a, NumClass)
    IN  IF p > Len(s) THEN <<>>
        ELSE IF HasAt(s, p, lit) /\ n1 > 0 THEN <<SubSeq(s, a, a + n1 - 1)>>
        ELSE MatchRotate(s, p + 1)

\* s.match(/scale\(([-\d.]+)\)/)
RECURSIVE MatchScale(_, _)
MatchScale(s, p) ==
    LET lit == <<"s", "c", "a", "l", "e", "(">>
        a == p + Len(lit)
        n1 == RunLen(s, a, NumClass)
    IN  IF p > Len(s) THEN <<>>
        ELSE IF HasAt(s, p, lit) /\ n1 > 0 /\ HasAt(s, a + n1, <<")">>)
             THEN <<SubSeq(s, a, a + n1 - 1)>>
        ELSE MatchScale(s, p + 1)

\* The transform parse effect on the attribute's characters.
parseTransformStr(transformStr) ==
    LET translateMatch == MatchTranslate(transformStr, 1)
        rotateMatch == MatchRotate(transformStr, 1)
        scaleMatch == MatchScale(transformStr, 1)
    IN  [x |-> IF translateMatch # <<>> THEN parseFloat(translateMatch[1]) ELSE Zero,
         y |-> IF translateMatch # <<>> THEN parseFloat(translateMatch[2]) ELSE Zero,
         rotate |-> IF rotateMatch # <<>> THEN parseFloat(rotateMatch[1]) ELSE Zero,
         scale |-> IF scaleMatch # <<>> THEN parseFloat(scaleMatch[1])
                   ELSE Num(FALSE, <<"1">>, 1)]

\* The values the inputs of the Transform section deliver: the number
\* inputs X and Y take any number (0, 16.7, -5, 100, 1e21, 1e-7 and 0, 50,
\* 0.5 here), the scale slider 0.1 to 3, the rotate slider 0 to 360.
NumberInputs ==
    [x |-> {Zero, Num(FALSE, <<"1", "6", "7">>, 2), Num(TRUE, <<"5">>, 1),
            Num(FALSE, <<"1">>, 3), Num(FALSE, <<"1">>, 22), Num(FALSE, <<"1">>, -6)},
     y |-> {Zero, Num(FALSE, <<"5">>, 2), Num(FALSE, <<"5">>, 0)},
     scale |-> {Num(FALSE, <<"1">>, 0), Num(FALSE, <<"1">>, 1), Num(FALSE, <<"3">>, 1)},
     rotate |-> {Zero, Num(FALSE, <<"9">>, 2), Num(FALSE, <<"3", "6">>, 3)}]

\* The editor with one rect (bounding box centre 12.5, 10) selected; its
\* transform attribute is held as the string of characters it is, and the
\* transform state as Numbers.
TextInit ==
    /\ status = SUCCESS
    /\ currentSvg = [id |-> 1, content |-> NoMarkup, prompt |-> "a red circle"]
    /\ error = NoError
    /\ isRefining = FALSE
    /\ view = "editor"
    /\ pending = <<>>
    /\ nextId = 2
    /\ editor = [InitialEditor EXCEPT
                    !.doc = << [ParseMarkup(MarkupA)[2] EXCEPT
                                   !.parent = 0, !.tf = <<>>, !.cls = ClsMarked,
                                   !.box = <<Num(FALSE, <<"1", "2", "5">>, 2),
                                             Num(FALSE, <<"1">>, 2)>>] >>,
                    !.hasSvg = TRUE, !.selectedEl = 1, !.layers = <<1>>,
                    !.transform = parseTransformStr(<<>>)]
    /\ edits = 0

\* An input of the Transform section, applyTransform writing the characters.
PanelTransformText(field, value) ==
    /\ editor.selectedEl # NullEl
    /\ LET newState == [editor.transform EXCEPT ![field] = value]
           k == editor.selectedEl
       IN  editor' = [editor EXCEPT
                         !.doc[k].tf = TemplateLiteral(newState, Pivot(editor.doc[k])),
                         !.transform = newState]
    /\ UNCHANGED edits
    /\ AppUnchanged

\* The Deselect button: selectElement(null); the parse effect does nothing.
DeselectText ==
    /\ editor.selectedEl # NullEl
    /\ editor' = [editor EXCEPT !.doc = ClearMarkers(editor.doc), !.selectedEl = NullEl]
    /\ UNCHANGED edits
    /\ AppUnchanged

\* A layer button: selectElement(el), then the parse effect on the
\* characters of the element's transform attribute.
LayerClickText(i) ==
    /\ i \in 1..Len(editor.layers)
    /\ LET el == editor.layers[i]
       IN  editor' = [editor EXCEPT
                         !.doc = AddMarker(ClearMarkers(editor.doc), el),
                         !.selectedEl = el,
                         !.transform = IF el # editor.selectedEl
                                       THEN parseTransformStr(editor.doc[el].tf)
                                       ELSE editor.transform]
    /\ UNCHANGED edits
    /\ AppUnchanged

TextNext ==
    \/ \E f \in DOMAIN NumberInputs : \E v \in NumberInputs[f] : PanelTransformText(f, v)
    \/ DeselectText
    \/ \E i \in 1..Len(editor.layers) : LayerClickText(i)

TextSpec == TextInit /\ [][TextNext]_vars

\* C36: selecting a node again after a deselection gives back the transform
\* state that applyTransform wrote to it: the four values parsed from the
\* attribute are the values of the state before the selection.
C36_WriteThenReadLossless ==
    [][(editor.selectedEl = NullEl /\ editor'.selectedEl # NullEl)
          => editor'.transform = editor.transform]_vars

\* ------------------------------------------- serialization and selection
\* C37: the serialized markup does not depend on the selection history:
\* whatever was selected or deselected so far, the live document serializes
\* to the text it would give had no node of it ever been selected.
C37_SerializationIgnoresSelection ==
    Mounted => getSvgContent(editor.doc, editor.hasSvg)
                 = getSvgContent(Unmarked(editor.doc), editor.hasSvg)

\* ------------------------------------------------ colour conversion
\* The two hexadecimal digits of a channel value, zero-padded.
TwoHex(c) == <<HexDigits[(c \div 16) + 1], HexDigits[(c % 16) + 1]>>

\* "#" followed by the two digits of each channel in the order r, g, b.
HexColor(r, g, b) == <<"#">> \o TwoHex(r) \o TwoHex(g) \o TwoHex(b)

\* C38: the control rendered for rgb(r, g, b) has the value "#" followed by
\* six hexadecimal digits, two zero-padded digits per channel in the order
\* r, g, b, and so has the conversion of the string with any one channel
\* replaced by any value of 0..255; the control rendered for a string that
\* starts with "#" has that string as its value.
C38_RgbToSixHexDigits ==
    editor.picker.shown =>
        /\ StartsWith(editor.picker.computed, <<"#">>) =>
              editor.picker.value = editor.picker.computed
        /\ \A r \in Channels, g \in Channels, b \in Channels :
              editor.picker.computed = RgbString(r, g, b) =>
                 /\ editor.picker.value = HexColor(r, g, b)
                 /\ Len(editor.picker.value) = 7
                 /\ \A c \in 0..255 :
                       /\ rgbToHex(RgbString(c, g, b)) = HexColor(c, g, b)
                       /\ rgbToHex(RgbString(r, c, b)) = HexColor(r, c, b)
                       /\ rgbToHex(RgbString(r, g, c)) = HexColor(r, g, c)

\* C38 witness: the control was rendered for rgb(15, 16, 255) and shows
\* #0f10ff (a channel below 16 is padded with a zero).
C38_Witness ==
    /\ editor.picker.shown
    /\ editor.picker.computed = RgbString(15, 16, 255)
    /\ editor.picker.value = <<"#", "0", "f", "1", "0", "f", "f">>

====
